---- MODULE Spec2Model ----
(***************************************************************************)
(* A model of the multi-tenant plugin application.                         *)
(*                                                                         *)
(*   Spec        the plugin registry (Plugin rows), the tenant/plugin      *)
(*               association (TenantPlugin rows) and the PluginManager     *)
(*               singleton with its in-process instance cache.             *)
(*   TenantSpec  the tenant registry: Tenant rows, their PostgreSQL        *)
(*               schemas and the status operations.                        *)
(*   QuerySpec   get_tenant_plugins over the plugin and association tables.*)
(*   AuthSpec    User.has_permission over users, roles and permissions.    *)
(*   RequestSpec tenant identification and its per-request memo in g.      *)
(*   DiscoverSpec  discover_plugins over the plugin packages on disk.      *)
(*   ConcurrentSpec  two requests inside enable/disable_for_tenant.        *)
(*   AssocSpec   the association of two tenants with a plugin.             *)
(*   StartupSpec the plugin manager from the state create_app leaves.      *)
(*   LoginSpec   POST /api/auth/login over users and their tenants.        *)
(*   RaceSpec    two requests inside get_plugin_instance and               *)
(*               deactivate_plugin on the one plugin manager.              *)
(*   RegistrySpec  registrations and discoveries of registered plugins.    *)
(*   UsageRaceSpec  two requests inside QuotaManager.increment_usage.      *)
(*   QuotaSpec   the quota manager: usage updates and percentages.         *)
(*                                                                         *)
(* Every action is one call of a method or route handler, taken as a       *)
(* whole.  A call's inputs are its arguments and `fault`, the step of the  *)
(* call at which the environment (the database, the plugin's constructor,  *)
(* the web framework) raises an exception; "none" is the run without one.  *)
(* `last` / `tlast` / `alast` / `qlast` record the latest call and what it  *)
(* returned.                                                               *)
(***************************************************************************)
EXTENDS Integers, FiniteSets, Sequences, TLC

\* ------------------------------------------------------------------ bounds

\* Tenants are the ids 1..MaxTenantId.
MaxTenantId == 1

\* tenant_id=None of get_plugin_instance; Python's `if tenant_id` treats it as false.
None == 0

TenantIds == 1..MaxTenantId

\* The plugin packages on disk (the setup() metadata of src/plugins/notes_plugin).
Slugs == {"notes"}

\* JSON config blobs, as sets of <<key, value>> pairs; {} is the empty dict.
EmptyConfig == {}

Configs == {EmptyConfig, {<<"max_notes_per_user", 5>>}}

\* What an entry_point string resolves to when load() imports it.
EntryPoints == {"notes_plugin.plugin:NotesPlugin", "missing_module:NotesPlugin", "notes_plugin.plugin:Missing"}

\* Tenant names submitted to create_tenant.
TenantNames == {"Acme Corp", "acme-corp", "Globex"}

\* ------------------------------------------------------------------- state

VARIABLES
    Plugin,            \* table plugins: slug -> row
    TenantPlugin,      \* table tenant_plugins: a set of rows
    plugins,           \* PluginManager.plugins: the slugs the manager holds a row object for
    plugin_instances,  \* PluginManager.plugin_instances: instance key -> instance
    blueprints,        \* current_app.blueprints: name -> number of registrations
    last,              \* the latest call on the plugin subsystem and its result
    Tenant,            \* table tenants: slug -> row
    schemas,           \* the tenant schemas that exist in the database
    schema_created,    \* tenants whose row has seen a successful create_schema
    tlast,             \* the latest call on the tenant registry and its result
    current_user,      \* flask_login's current_user: the User row of the request
    Role,              \* table roles: name -> row
    User,              \* table users: username -> row
    alast,             \* the latest permission check or login and its result
    TenantUsage,       \* table tenant_usage: a set of rows
    qlast,             \* the latest call on the quota manager and its result
    request,           \* the HTTP request being served: {} between requests
    g,                 \* flask.g of the request's application context: attribute -> value
    middleware_installed, \* whether the application called tenant_middleware(app)
    rlast,             \* what get_current_tenant did during the request being served
    calls              \* concurrent requests: request -> the enable/disable call it is in

pluginVars == <<Plugin, TenantPlugin, plugins, plugin_instances, blueprints, last>>

tenantVars == <<Tenant, schemas, schema_created, tlast>>

authVars == <<current_user, Role, User, alast>>

quotaVars == <<TenantUsage, qlast>>

requestVars == <<request, g, middleware_installed, rlast, calls>>

nonPluginVars == <<tenantVars, authVars, requestVars, quotaVars>>

nonTenantVars == <<pluginVars, authVars, requestVars, quotaVars>>

nonAuthVars == <<pluginVars, tenantVars, requestVars, quotaVars>>

vars == <<Plugin, TenantPlugin, plugins, plugin_instances, blueprints, last, Tenant, schemas, schema_created, tlast, current_user, Role, User, alast, request, g, middleware_installed, rlast, calls, TenantUsage, qlast>>

\* ----------------------------------------------------------- plugin registry

PluginStatus == {"active", "inactive", "error", "pending"}

\* Plugin.id: rows are never deleted and slug is unique, so the slug names the row.
PluginId(slug) == slug

\* importlib.import_module(module_path) and hasattr(module, module_attr)
Resolve(entry_point) ==
    CASE entry_point = "missing_module:NotesPlugin" -> "ImportError"
      [] entry_point = "example_plugin.plugin:ExamplePlugin" -> "ImportError"
      [] entry_point = "notes_plugin.plugin:Missing" -> "no_attr"
      [] OTHER -> "class"

\* Plugin.load() on a row: what it returns and the status it leaves persisted.
\* commit_ok: whether the commit that persists status = error goes through.  On the
\* missing-attribute path a failing commit (line 82) raises inside the try, and the
\* handler commits once more (line 88); commit_ok is the outcome of the last attempt.
load(plugin, commit_ok) ==
    IF Resolve(plugin.entry_point) = "class"
    THEN [outcome |-> "class", status |-> plugin.status]
    ELSE IF commit_ok
         THEN [outcome |-> "None", status |-> "error"]
         ELSE [outcome |-> "raised", status |-> plugin.status]

\* NotesPlugin.get_blueprint(): the blueprint's name.
BlueprintName(slug) == "notes_plugin"

\* f"{plugin_slug}:{tenant_id}" if tenant_id else plugin_slug
InstanceKey(plugin_slug, tenant_id) ==
    IF tenant_id # None THEN <<plugin_slug, tenant_id>> ELSE <<plugin_slug>>

\* plugin_class(config): the instance remembers the config it was constructed with.
Instance(slug, config) == [slug |-> slug, config |-> config]

\* The record of a call: a returned instance is the one-element set ret.
Call(op, slug, tenant_id, fault, before, loaded, result, ret) ==
    [op |-> op, slug |-> slug, tenant_id |-> tenant_id, fault |-> fault,
     before |-> before, load |-> loaded, result |-> result, ret |-> ret]

StatusOf(slug) == IF slug \in DOMAIN Plugin THEN Plugin[slug].status ELSE "absent"

\* TenantPlugin.query.filter_by(tenant_id=..., plugin_id=...)
RowsFor(tenant_id, plugin_id) ==
    {r \in TenantPlugin : r.tenant_id = tenant_id /\ r.plugin_id = plugin_id}

\* The upsert as an insert-if-absent: the existing row of the slug is left as it is.
UpsertInsertOnly(table, slug, entry_point, enabled_for_all) ==
    IF slug \in DOMAIN table
    THEN table
    ELSE [s \in DOMAIN table \cup {slug} |->
            IF s = slug
            THEN [status |-> "inactive", entry_point |-> entry_point,
                  enabled_for_all |-> enabled_for_all]
            ELSE table[s]]

\* The table after a register_plugin that commits: the existing row of the slug gets the
\* metadata and keeps its status; a new row is created with status inactive.
Upsert(table, slug, entry_point, enabled_for_all) ==
    IF slug \in DOMAIN table
    THEN [table EXCEPT ![slug].entry_point = entry_point,
                       ![slug].enabled_for_all = enabled_for_all]
    ELSE [s \in DOMAIN table \cup {slug} |->
            IF s = slug
            THEN [status |-> "inactive", entry_point |-> entry_point,
                  enabled_for_all |-> enabled_for_all]
            ELSE table[s]]

\* The record of a register_plugin call: a call record with the metadata passed.
RegisterCall(slug, fault, before, result, entry_point, enabled_for_all) ==
    [op |-> "register_plugin", slug |-> slug, tenant_id |-> None, fault |-> fault,
     before |-> before, load |-> "not_called", result |-> result, ret |-> {},
     entry_point |-> entry_point, enabled_for_all |-> enabled_for_all]

\* register_plugin writing the row anew whether or not the slug exists: the row of an
\* existing slug goes back to status inactive.
register_plugin_as_new(slug, entry_point, enabled_for_all, fault) ==
    /\ fault \in {"none", "commit"}
    /\ IF fault = "commit"
       THEN /\ last' = RegisterCall(slug, fault, StatusOf(slug), "raised", entry_point, enabled_for_all)
            /\ UNCHANGED Plugin
       ELSE /\ Plugin' = [s \in DOMAIN Plugin \cup {slug} |->
                             IF s = slug
                             THEN [status |-> "inactive", entry_point |-> entry_point,
                                   enabled_for_all |-> enabled_for_all]
                             ELSE Plugin[s]]
            /\ last' = RegisterCall(slug, fault, StatusOf(slug), "row", entry_point, enabled_for_all)
    /\ UNCHANGED <<TenantPlugin, plugins, plugin_instances, blueprints>>

\* Plugin.register_plugin: upsert by slug.
register_plugin(slug, entry_point, enabled_for_all, fault) ==
    /\ fault \in {"none", "commit"}
    /\ IF fault = "commit"
       THEN /\ last' = RegisterCall(slug, fault, StatusOf(slug), "raised", entry_point, enabled_for_all)
            /\ UNCHANGED Plugin
       ELSE /\ Plugin' = Upsert(Plugin, slug, entry_point, enabled_for_all)
            /\ last' = RegisterCall(slug, fault, StatusOf(slug), "row", entry_point, enabled_for_all)
    /\ UNCHANGED <<TenantPlugin, plugins, plugin_instances, blueprints>>

\* ---------------------------------------------------- tenant/plugin association

\* The record of an enable_for_tenant call: a call record with the config passed and the
\* association the query found.
EnableCall(plugin_id, tenant_id, fault, result, config, found) ==
    [op |-> "enable_for_tenant", slug |-> plugin_id, tenant_id |-> tenant_id, fault |-> fault,
     before |-> StatusOf(plugin_id), load |-> "not_called", result |-> result, ret |-> {},
     config |-> config, found |-> found]

\* enable_for_tenant assigning the config whatever it is: an empty one clears the stored one.
enable_for_tenant_overwriting(tenant_id, plugin_id, config, fault) ==
    /\ fault \in {"none", "commit"}
    /\ plugin_id \in DOMAIN Plugin
    /\ LET existing == RowsFor(tenant_id, plugin_id)
           updated == {[r EXCEPT !.enabled = TRUE, !.config = config] : r \in existing}
           created == {[tenant_id |-> tenant_id, plugin_id |-> plugin_id,
                        enabled |-> TRUE, config |-> config]}
       IN  IF fault = "commit"
           THEN /\ UNCHANGED TenantPlugin
                /\ last' = EnableCall(plugin_id, tenant_id, fault, "raised", config, existing)
           ELSE /\ TenantPlugin' =
                    IF existing # {}
                    THEN (TenantPlugin \ existing) \cup updated
                    ELSE TenantPlugin \cup created
                /\ last' = EnableCall(plugin_id, tenant_id, fault, "row", config, existing)
    /\ UNCHANGED <<Plugin, plugins, plugin_instances, blueprints>>

\* TenantPlugin.enable_for_tenant
enable_for_tenant(tenant_id, plugin_id, config, fault) ==
    /\ fault \in {"none", "commit"}
    /\ plugin_id \in DOMAIN Plugin
    /\ LET existing == RowsFor(tenant_id, plugin_id)
           updated == {[r EXCEPT !.enabled = TRUE,
                                 !.config = IF config # EmptyConfig THEN config ELSE r.config] : r \in existing}
           created == {[tenant_id |-> tenant_id, plugin_id |-> plugin_id,
                        enabled |-> TRUE, config |-> config]}
       IN  IF fault = "commit"
           THEN /\ UNCHANGED TenantPlugin
                /\ last' = EnableCall(plugin_id, tenant_id, fault, "raised", config, existing)
           ELSE /\ TenantPlugin' =
                    IF existing # {}
                    THEN (TenantPlugin \ existing) \cup updated
                    ELSE TenantPlugin \cup created
                /\ last' = EnableCall(plugin_id, tenant_id, fault, "row", config, existing)
    /\ UNCHANGED <<Plugin, plugins, plugin_instances, blueprints>>

\* disable_for_tenant filtering on the plugin only: every tenant's row is disabled.
disable_for_every_tenant(tenant_id, plugin_id, fault) ==
    /\ fault \in {"none", "commit"}
    /\ plugin_id \in DOMAIN Plugin
    /\ LET existing == {r \in TenantPlugin : r.plugin_id = plugin_id}
       IN  IF existing = {}
           THEN /\ fault = "none"
                /\ UNCHANGED TenantPlugin
                /\ last' = Call("disable_for_tenant", plugin_id, tenant_id, fault, StatusOf(plugin_id), "not_called", "False", {})
           ELSE IF fault = "commit"
                THEN /\ UNCHANGED TenantPlugin
                     /\ last' = Call("disable_for_tenant", plugin_id, tenant_id, fault, StatusOf(plugin_id), "not_called", "raised", {})
                ELSE /\ TenantPlugin' = (TenantPlugin \ existing) \cup {[r EXCEPT !.enabled = FALSE] : r \in existing}
                     /\ last' = Call("disable_for_tenant", plugin_id, tenant_id, fault, StatusOf(plugin_id), "not_called", "True", {})
    /\ UNCHANGED <<Plugin, plugins, plugin_instances, blueprints>>

\* TenantPlugin.disable_for_tenant
disable_for_tenant(tenant_id, plugin_id, fault) ==
    /\ fault \in {"none", "commit"}
    /\ plugin_id \in DOMAIN Plugin
    /\ LET existing == RowsFor(tenant_id, plugin_id)
       IN  IF existing = {}
           THEN /\ fault = "none"
                /\ UNCHANGED TenantPlugin
                /\ last' = Call("disable_for_tenant", plugin_id, tenant_id, fault, StatusOf(plugin_id), "not_called", "False", {})
           ELSE IF fault = "commit"
                THEN /\ UNCHANGED TenantPlugin
                     /\ last' = Call("disable_for_tenant", plugin_id, tenant_id, fault, StatusOf(plugin_id), "not_called", "raised", {})
                ELSE /\ TenantPlugin' = (TenantPlugin \ existing) \cup {[r EXCEPT !.enabled = FALSE] : r \in existing}
                     /\ last' = Call("disable_for_tenant", plugin_id, tenant_id, fault, StatusOf(plugin_id), "not_called", "True", {})
    /\ UNCHANGED <<Plugin, plugins, plugin_instances, blueprints>>

\* PUT /api/plugins/tenant/<plugin_slug>/config for the current tenant
update_tenant_plugin_config(tenant_id, plugin_slug, data, fault) ==
    /\ fault \in {"none", "commit"}
    /\ LET existing == RowsFor(tenant_id, PluginId(plugin_slug))
       IN  IF plugin_slug \notin DOMAIN Plugin
           THEN /\ fault = "none"
                /\ UNCHANGED TenantPlugin
                /\ last' = Call("update_tenant_plugin_config", plugin_slug, tenant_id, fault, StatusOf(plugin_slug), "not_called", "404", {})
           ELSE IF data = EmptyConfig \/ existing = {}
                THEN /\ fault = "none"
                     /\ UNCHANGED TenantPlugin
                     /\ last' = Call("update_tenant_plugin_config", plugin_slug, tenant_id, fault, StatusOf(plugin_slug), "not_called", "400", {})
                ELSE IF fault = "commit"
                     THEN /\ UNCHANGED TenantPlugin
                          /\ last' = Call("update_tenant_plugin_config", plugin_slug, tenant_id, fault, StatusOf(plugin_slug), "not_called", "500", {})
                     ELSE /\ TenantPlugin' = (TenantPlugin \ existing) \cup {[r EXCEPT !.config = data] : r \in existing}
                          /\ last' = Call("update_tenant_plugin_config", plugin_slug, tenant_id, fault, StatusOf(plugin_slug), "not_called", "200", {})
    /\ UNCHANGED <<Plugin, plugins, plugin_instances, blueprints>>

\* ------------------------------------------------------------ plugin manager

\* A map with one more entry (dict[key] = value).
Put(map, key, value) ==
    [k \in DOMAIN map \cup {key} |-> IF k = key THEN value ELSE map[k]]

\* A map without an entry (del dict[key]).
Del(map, key) == [k \in DOMAIN map \ {key} |-> map[k]]

\* RegisterBlueprint without the "already registered" test: every activation registers.
RegisterBlueprintUnchecked(registered, name) ==
    Put(registered, name, IF name \in DOMAIN registered THEN registered[name] + 1 ELSE 1)

\* if blueprint.name not in current_app.blueprints: current_app.register_blueprint(blueprint)
RegisterBlueprint(registered, name) ==
    IF name \notin DOMAIN registered THEN Put(registered, name, 1) ELSE registered

\* if plugin_slug in self.plugin_instances: del self.plugin_instances[plugin_slug]
EvictInstances(instances, plugin_slug) ==
    IF <<plugin_slug>> \in DOMAIN instances THEN Del(instances, <<plugin_slug>>) ELSE instances

ActivateFaults ==
    {"none", "load_commit", "constructor", "register_blueprint", "commit", "refresh"}

\* PluginManager.activate_plugin
activate_plugin(plugin_slug, fault) ==
    /\ fault \in ActivateFaults
    /\ IF plugin_slug \notin DOMAIN Plugin
       THEN /\ fault = "none"
            /\ last' = Call("activate_plugin", plugin_slug, None, fault, "absent", "not_called", "False", {})
            /\ UNCHANGED <<Plugin, plugins, blueprints>>
       ELSE LET plugin == Plugin[plugin_slug]
                loaded == load(plugin, fault # "load_commit")
                name == BlueprintName(plugin_slug)
                ret(result) == Call("activate_plugin", plugin_slug, None, fault, plugin.status, loaded.outcome, result, {})
            IN  IF loaded.outcome # "class"
                THEN \* load() returned nothing, or raised into the except clause: rollback
                     /\ fault \in {"none", "load_commit"}
                     /\ Plugin' = [Plugin EXCEPT ![plugin_slug].status = loaded.status]
                     /\ last' = ret("False")
                     /\ UNCHANGED <<plugins, blueprints>>
                ELSE CASE fault = "constructor" ->
                            \* plugin_class() raises: rollback
                            /\ last' = ret("False")
                            /\ UNCHANGED <<Plugin, plugins, blueprints>>
                       [] fault = "register_blueprint" ->
                            \* current_app.register_blueprint raises: return False
                            /\ name \notin DOMAIN blueprints
                            /\ last' = ret("False")
                            /\ UNCHANGED <<Plugin, plugins, blueprints>>
                       [] fault = "commit" ->
                            \* the commit of status = active raises: rollback
                            /\ blueprints' = RegisterBlueprint(blueprints, name)
                            /\ last' = ret("False")
                            /\ UNCHANGED <<Plugin, plugins>>
                       [] fault = "refresh" ->
                            \* db.session.refresh raises after the commit went through
                            /\ blueprints' = RegisterBlueprint(blueprints, name)
                            /\ Plugin' = [Plugin EXCEPT ![plugin_slug].status = "active"]
                            /\ last' = ret("False")
                            /\ UNCHANGED plugins
                       [] fault = "none" ->
                            /\ blueprints' = RegisterBlueprint(blueprints, name)
                            /\ Plugin' = [Plugin EXCEPT ![plugin_slug].status = "active"]
                            /\ plugins' = plugins \cup {plugin_slug}
                            /\ last' = ret("True")
                       [] OTHER -> FALSE
    /\ UNCHANGED <<TenantPlugin, plugin_instances>>

\* The blueprint check of deactivate_plugin taking the blueprint off the application.
UnregisterBlueprintRemoving(registered, plugin_slug) ==
    IF BlueprintName(plugin_slug) \in DOMAIN registered
    THEN Del(registered, BlueprintName(plugin_slug))
    ELSE registered

\* if blueprint_name in current_app.blueprints: logger.info(...): nothing is unregistered
\* ("Flask doesn't have a built-in way to unregister blueprints").
UnregisterBlueprint(registered, plugin_slug) == registered

\* PluginManager.deactivate_plugin
deactivate_plugin(plugin_slug, fault) ==
    /\ fault \in {"none", "commit", "refresh"}
    /\ IF plugin_slug \notin DOMAIN Plugin
       THEN /\ fault = "none"
            /\ last' = Call("deactivate_plugin", plugin_slug, None, fault, "absent", "not_called", "False", {})
            /\ UNCHANGED <<Plugin, plugins, plugin_instances, blueprints>>
       ELSE LET ret(result) == Call("deactivate_plugin", plugin_slug, None, fault, Plugin[plugin_slug].status, "not_called", result, {})
            IN  /\ blueprints' = UnregisterBlueprint(blueprints, plugin_slug)
                /\ CASE fault = "commit" ->
                          \* the commit of status = inactive raises: rollback
                          /\ last' = ret("False")
                          /\ UNCHANGED <<Plugin, plugins, plugin_instances>>
                     [] fault = "refresh" ->
                          \* db.session.refresh raises after the commit went through
                          /\ Plugin' = [Plugin EXCEPT ![plugin_slug].status = "inactive"]
                          /\ last' = ret("False")
                          /\ UNCHANGED <<plugins, plugin_instances>>
                     [] OTHER ->
                          /\ Plugin' = [Plugin EXCEPT ![plugin_slug].status = "inactive"]
                          /\ plugin_instances' = EvictInstances(plugin_instances, plugin_slug)
                          /\ plugins' = plugins \cup {plugin_slug}
                          /\ last' = ret("True")
    /\ UNCHANGED TenantPlugin

\* The try block with the cache written whether or not the constructor raised.
CreateInstanceCachingAnyway(instances, instance_key, instance, raised) ==
    Put(instances, instance_key, instance)

\* try: instance = plugin_class(config); self.plugin_instances[instance_key] = instance
\* except: return None.  raised: the constructor raises.
CreateInstance(instances, instance_key, instance, raised) ==
    IF raised THEN instances ELSE Put(instances, instance_key, instance)

\* PluginManager.get_plugin_instance
get_plugin_instance(plugin_slug, tenant_id, fault) ==
    /\ fault \in {"none", "load_commit", "constructor"}
    /\ LET instance_key == InstanceKey(plugin_slug, tenant_id)
           ret(loaded, result, instance) ==
               Call("get_plugin_instance", plugin_slug, tenant_id, fault, StatusOf(plugin_slug), loaded, result, instance)
       IN  IF instance_key \in DOMAIN plugin_instances
           THEN \* the cached instance is returned before anything is looked up
                /\ fault = "none"
                /\ last' = ret("not_called", "instance", {plugin_instances[instance_key]})
                /\ UNCHANGED <<Plugin, plugins, plugin_instances>>
           ELSE IF plugin_slug \notin plugins /\ plugin_slug \notin DOMAIN Plugin
           THEN /\ fault = "none"
                /\ last' = ret("not_called", "None", {})
                /\ UNCHANGED <<Plugin, plugins, plugin_instances>>
           ELSE LET plugin == Plugin[plugin_slug]
                    loaded == load(plugin, fault # "load_commit")
                    enabled == {r \in RowsFor(tenant_id, PluginId(plugin_slug)) : r.enabled}
                    config == IF tenant_id # None /\ enabled # {}
                              THEN (CHOOSE r \in enabled : TRUE).config
                              ELSE EmptyConfig
                    instance == Instance(plugin_slug, config)
                IN  /\ plugins' = plugins \cup {plugin_slug}
                    /\ IF plugin.status # "active"
                       THEN /\ fault = "none"
                            /\ last' = ret("not_called", "None", {})
                            /\ UNCHANGED <<Plugin, plugin_instances>>
                       ELSE IF loaded.outcome # "class"
                       THEN \* load() returns nothing, or raises to the caller
                            /\ fault \in {"none", "load_commit"}
                            /\ Plugin' = [Plugin EXCEPT ![plugin_slug].status = loaded.status]
                            /\ last' = ret(loaded.outcome, loaded.outcome, {})
                            /\ UNCHANGED plugin_instances
                       ELSE IF tenant_id # None /\ enabled = {} /\ ~plugin.enabled_for_all
                       THEN /\ fault = "none"
                            /\ last' = ret("class", "None", {})
                            /\ UNCHANGED <<Plugin, plugin_instances>>
                       ELSE /\ fault \in {"none", "constructor"}
                            /\ plugin_instances' =
                                   CreateInstance(plugin_instances, instance_key, instance, fault = "constructor")
                            /\ last' = IF fault = "constructor"
                                       THEN ret("class", "None", {})
                                       ELSE ret("class", "instance", {instance})
                            /\ UNCHANGED Plugin
    /\ UNCHANGED <<TenantPlugin, blueprints>>

\* flask plugins debug-plugin <slug>: calls plugin.load() directly
debug_plugin(slug, fault) ==
    /\ fault \in {"none", "load_commit"}
    /\ slug \in DOMAIN Plugin
    /\ LET loaded == load(Plugin[slug], fault # "load_commit")
       IN  /\ fault = "load_commit" => loaded.outcome = "raised"
           /\ Plugin' = [Plugin EXCEPT ![slug].status = loaded.status]
           /\ last' = Call("debug_plugin", slug, None, fault, Plugin[slug].status, loaded.outcome, loaded.outcome, {})
    /\ UNCHANGED <<TenantPlugin, plugins, plugin_instances, blueprints>>

\* register_all_plugin_blueprints(app), run by create_app: the blueprint of every Plugin
\* row whose load() returns a class is registered, whatever the status of the row.
RECURSIVE register_all_plugin_blueprints(_, _, _)
register_all_plugin_blueprints(table, slugs, registered) ==
    IF slugs = {}
    THEN registered
    ELSE LET slug == CHOOSE s \in slugs : TRUE
             rest == register_all_plugin_blueprints(table, slugs \ {slug}, registered)
         IN  IF load(table[slug], TRUE).outcome = "class"
             THEN RegisterBlueprint(rest, BlueprintName(slug))
             ELSE rest

\* plugin_manager.load_plugin_blueprints(app), run by create_app: get_plugin_instance(slug)
\* for every active plugin, which caches the instance of each plugin that loads.
load_plugin_blueprints(table) ==
    LET loaded == {s \in DOMAIN table :
                      table[s].status = "active" /\ load(table[s], TRUE).outcome = "class"}
    IN  [k \in {InstanceKey(s, None) : s \in loaded} |-> Instance(k[1], EmptyConfig)]

\* ------------------------------------------------------------ plugin discovery

\* os.listdir(plugins_dir): the plugin packages, in the order they are visited.
PackageDirs == <<"example_plugin", "notes_plugin", "task_tracker">>

\* What setup() of a package returns (the fields the model keeps).
Metadata(item) ==
    CASE item = "example_plugin" ->
             [slug |-> "example-plugin", entry_point |-> "example_plugin.plugin:ExamplePlugin",
              enabled_for_all |-> FALSE]
      [] item = "notes_plugin" ->
             [slug |-> "notes", entry_point |-> "notes_plugin.plugin:NotesPlugin",
              enabled_for_all |-> FALSE]
      [] item = "task_tracker" ->
             [slug |-> "task-tracker", entry_point |-> "task_tracker.plugin:TaskTrackerPlugin",
              enabled_for_all |-> TRUE]

\* What happens to a package during a discovery: all goes well, import_module raises,
\* setup() raises, setup() returns nothing, or the commit of register_plugin raises
\* while flushing the row.
Outcomes == {"ok", "import_raises", "setup_raises", "setup_none", "commit_raises"}

\* The loop of discover_plugins from the i-th package on.  session_ok: the SQLAlchemy
\* session accepts statements.  A commit that fails in register_plugin's insert branch is
\* rolled back there (lines 130-138); one that fails in the update branch (line 110) is
\* not, and the session then refuses every statement until a rollback.
RECURSIVE DiscoverFrom(_, _, _, _, _)
DiscoverFrom(i, table, discovered, session_ok, how) ==
    IF i > Len(PackageDirs)
    THEN [table |-> table, discovered |-> discovered, session_ok |-> session_ok]
    ELSE LET item == PackageDirs[i]
             metadata == Metadata(item)
         IN  CASE how[item] \in {"import_raises", "setup_raises", "setup_none"} ->
                      DiscoverFrom(i + 1, table, discovered, session_ok, how)
               [] how[item] = "commit_raises" ->
                      DiscoverFrom(i + 1, table, Append(discovered, metadata),
                                   session_ok /\ metadata.slug \notin DOMAIN table, how)
               [] OTHER ->
                      IF session_ok
                      THEN DiscoverFrom(i + 1,
                                        Upsert(table, metadata.slug, metadata.entry_point,
                                               metadata.enabled_for_all),
                                        Append(discovered, metadata), session_ok, how)
                      ELSE \* Plugin.query raises inside register_plugin; caught and logged
                           DiscoverFrom(i + 1, table, Append(discovered, metadata), session_ok, how)

\* PluginManager.discover_plugins: the loop, then _load_all_plugins(), whose query
\* raises to the caller when the session refuses statements.
discover_plugins(how) ==
    /\ LET done == DiscoverFrom(1, Plugin, <<>>, TRUE, how)
       IN  /\ Plugin' = done.table
           /\ plugins' = IF done.session_ok THEN plugins \cup DOMAIN done.table ELSE plugins
           /\ last' = [op |-> "discover_plugins", how |-> how,
                       result |-> IF done.session_ok THEN "list" ELSE "raised",
                       discovered |-> IF done.session_ok THEN done.discovered ELSE <<>>]
    /\ UNCHANGED <<TenantPlugin, plugin_instances, blueprints>>
    /\ UNCHANGED nonPluginVars

\* ------------------------------------------------------- plugins of a tenant

\* The slugs of the loadable plugin packages on disk (notes_plugin, task_tracker).
PackageSlugs == {"notes", "task-tracker"}

\* The rows of a query's result, as the list .all() returns (in some order).
RECURSIVE All(_)
All(rows) ==
    IF rows = {} THEN <<>>
    ELSE LET row == CHOOSE r \in rows : TRUE IN <<row>> \o All(rows \ {row})

\* Plugin.query.filter_by(status='active', enabled_for_all=True).all()
system_plugins ==
    All({s \in DOMAIN Plugin : Plugin[s].status = "active" /\ Plugin[s].enabled_for_all})

\* The tenant's rows, enabled or not, joined to plugins of any status.
tenant_plugins_unfiltered(tenant_id) ==
    All({tp \in TenantPlugin : tp.tenant_id = tenant_id})

\* TenantPlugin.query.filter_by(tenant_id=..., enabled=True).join(Plugin).filter(status == 'active').all()
tenant_plugins(tenant_id) ==
    All({tp \in TenantPlugin : /\ tp.tenant_id = tenant_id
                               /\ tp.enabled
                               /\ Plugin[tp.plugin_id].status = "active"})

\* get_tenant_plugins without the test against system_plugin_ids.
get_tenant_plugins_appending_all(tenant_id) ==
    LET listed == tenant_plugins(tenant_id)
    IN  system_plugins \o [i \in DOMAIN listed |-> listed[i].plugin_id]

\* PluginManager.get_tenant_plugins: the plugins (by id) of the returned list.
get_tenant_plugins(tenant_id) ==
    LET system_plugin_ids == {system_plugins[i] : i \in DOMAIN system_plugins}
        appended == SelectSeq(tenant_plugins(tenant_id),
                              LAMBDA tp : tp.plugin_id \notin system_plugin_ids)
    IN  system_plugins \o [i \in DOMAIN appended |-> appended[i].plugin_id]

\* GET /api/plugins/tenant for the tenant of the request
list_tenant_plugins(tenant_id) ==
    /\ last' = [op |-> "get_tenant_plugins", tenant_id |-> tenant_id,
                result |-> get_tenant_plugins(tenant_id)]
    /\ UNCHANGED <<Plugin, TenantPlugin, plugins, plugin_instances, blueprints>>
    /\ UNCHANGED nonPluginVars

\* ------------------------------------------------------------------ permissions

\* Role names, and the permission strings roles hold and handlers ask for:
\* "export_data" is defined nowhere and listed by no role.
RoleNames == {"Admin", "User"}

GrantablePermissions == {"view_plugins", "configure_plugin", "admin_access"}

RequestedPermissions == GrantablePermissions \cup {"export_data", "view"}

\* User.has_permission answering for system admins only.
has_permission_admin_only(user, permission) == user.is_system_admin

\* User.has_permission
has_permission(user, permission) ==
    IF user.is_system_admin THEN TRUE
    ELSE \E role \in user.roles : permission \in Role[role].permissions

\* @permission_required(permission) around a handler, for an authenticated user
permission_required(permission) ==
    /\ alast' = [op |-> "has_permission", permission |-> permission,
                 result |-> has_permission(current_user, permission)]
    /\ UNCHANGED <<current_user, Role, User>>
    /\ UNCHANGED nonAuthVars

\* ---------------------------------------------------------------------- login

\* What a client sends as data['username'] and data['password'] ("" is a missing field).
LoginNames == {"alice", "alice@acme.io", "ghost", ""}

LoginPasswords == {"secret", "wrong", ""}

\* The logins a user row counts in last_login before the model stops counting.
MaxLogins == 2

\* User.query.filter((User.username == username) | (User.email == username)).first()
FindUser(username) ==
    {u \in DOMAIN User : u = username \/ User[u].email = username}

\* user.verify_password(password)
verify_password(user, password) == user.password = password

\* The tenant check of login letting every tenant through.
TenantBlocksNever(user) == FALSE

\* if user.tenant_id: tenant = Tenant.query.get(user.tenant_id);
\* tenant and tenant.status != 'active'
TenantBlocks(user) ==
    \E t \in user.tenant_id : t \in DOMAIN Tenant /\ Tenant[t].status # "active"

\* POST /api/auth/login
login(username, password, fault) ==
    /\ fault \in {"none", "commit"}
    /\ LET found == FindUser(username)
           answer(status, token) ==
               [op |-> "login", username |-> username, password |-> password,
                fault |-> fault, status |-> status, token |-> token]
       IN  IF username = "" \/ password = ""
           THEN /\ fault = "none"
                /\ alast' = answer(400, {})
                /\ UNCHANGED User
           ELSE IF found = {} \/ \E u \in found : ~verify_password(User[u], password)
           THEN /\ fault = "none"
                /\ alast' = answer(401, {})
                /\ UNCHANGED User
           ELSE LET u == CHOOSE x \in found : TRUE
                    user == User[u]
                IN  IF ~user.is_active
                    THEN /\ fault = "none"
                         /\ alast' = answer(403, {})
                         /\ UNCHANGED User
                    ELSE IF TenantBlocks(user)
                    THEN /\ fault = "none"
                         /\ alast' = answer(403, {})
                         /\ UNCHANGED User
                    ELSE IF fault = "commit"
                    THEN \* update_last_login: the commit raises, no token is generated
                         /\ alast' = answer(500, {})
                         /\ UNCHANGED User
                    ELSE /\ user.last_login < MaxLogins
                         /\ User' = [User EXCEPT ![u].last_login = @ + 1]
                         /\ alast' = answer(200, {u})
    /\ UNCHANGED <<current_user, Role>>
    /\ UNCHANGED nonAuthVars

\* ------------------------------------------------------ tenant identification

\* Host names are lists of labels ("acme.example.com" is <<"acme", "example", "com">>),
\* paths the lists that path.split('/') yields ("/tenant/acme/" is <<"", "tenant", "acme", "">>).
\* A set holds what a lookup returns: {} for None, {slug} for the tenant of that slug.
NoDomain == <<>>

Domains == {NoDomain, <<"acme", "io">>, <<"globex", "acme", "io">>}

HostNames ==
    {<<"example", "com">>, <<"www", "example", "com">>, <<"acme", "example", "com">>,
     <<"acme", "io">>, <<"globex", "acme", "io">>}

Ports == {"", "5000"}

Paths ==
    {<<"", "">>, <<"", "tenant", "acme", "">>, <<"", "tenant", "globex">>,
     <<"", "tenant", "nobody", "">>, <<"", "static", "app.css">>, <<"", "static">>}

QueryArgs == {"", "acme", "nobody"}

RequestSlugs == {"acme", "globex"}

Requests == [host : HostNames, port : Ports, path : Paths, tenant : QueryArgs]

\* Tenant.get_tenant_by_slug
get_tenant_by_slug(slug) == IF slug \in DOMAIN Tenant THEN {slug} ELSE {}

\* Tenant.get_tenant_by_domain
get_tenant_by_domain(domain) == {s \in DOMAIN Tenant : Tenant[s].domain = domain}

\* identify_tenant with the custom domain looked up before the subdomain.
identify_tenant_domain_first(req) ==
    LET parts == req.host
        path_parts == req.path
        by_subdomain == IF Len(parts) > 2 /\ parts[1] # "www"
                        THEN get_tenant_by_slug(parts[1]) ELSE {}
        by_path == IF Len(path_parts) > 2 /\ path_parts[2] = "tenant"
                   THEN get_tenant_by_slug(path_parts[3]) ELSE {}
        by_query == IF req.tenant # "" THEN get_tenant_by_slug(req.tenant) ELSE {}
    IN  IF Len(path_parts) > 2 /\ path_parts[2] = "static" THEN {}
        ELSE IF get_tenant_by_domain(parts) # {} THEN get_tenant_by_domain(parts)
        ELSE IF by_subdomain # {} THEN by_subdomain
        ELSE IF by_path # {} THEN by_path
        ELSE by_query

\* identify_tenant: request.host.split(':')[0] drops the port, so req.host is the name.
identify_tenant(req) ==
    LET parts == req.host
        path_parts == req.path
        by_subdomain == IF Len(parts) > 2 /\ parts[1] # "www"
                        THEN get_tenant_by_slug(parts[1]) ELSE {}
        by_domain == get_tenant_by_domain(parts)
        by_path == IF Len(path_parts) > 2 /\ path_parts[2] = "tenant"
                   THEN get_tenant_by_slug(path_parts[3]) ELSE {}
        by_query == IF req.tenant # "" THEN get_tenant_by_slug(req.tenant) ELSE {}
    IN  IF Len(path_parts) > 2 /\ path_parts[2] = "static" THEN {}
        ELSE IF by_subdomain # {} THEN by_subdomain
        ELSE IF by_domain # {} THEN by_domain
        ELSE IF by_path # {} THEN by_path
        ELSE by_query

\* What get_current_tenant did so far in a request.
NoCalls == [calls |-> 0, identifications |-> 0, returned |-> {}, identified |-> {}]

\* A request arrives: a fresh application context; identify_tenant_before_request runs
\* when the middleware is installed.
identify_tenant_before_request(req) ==
    /\ request = {}
    /\ request' = {req}
    /\ IF middleware_installed
       THEN LET tenant == identify_tenant(req)
            IN  /\ g' = Put(g, "tenant", tenant)
                /\ rlast' = [NoCalls EXCEPT !.identifications = 1, !.identified = {tenant}]
       ELSE /\ g' = g
            /\ rlast' = NoCalls
    /\ UNCHANGED <<middleware_installed, calls>>
    /\ UNCHANGED <<pluginVars, tenantVars, authVars, quotaVars>>

\* A handler, decorator or context processor calls get_current_tenant(); a request
\* makes at most MaxCalls calls.
MaxCalls == 3

\* get_current_tenant that identifies on every call.
get_current_tenant_unmemoized ==
    /\ request # {}
    /\ rlast.calls < MaxCalls
    /\ LET req == CHOOSE r \in request : TRUE
           tenant == identify_tenant(req)
       IN  /\ g' = Put(g, "tenant", tenant)
           /\ rlast' = [calls |-> rlast.calls + 1,
                        identifications |-> rlast.identifications + 1,
                        returned |-> rlast.returned \cup {tenant},
                        identified |-> rlast.identified \cup {tenant}]
    /\ UNCHANGED <<request, middleware_installed, calls>>
    /\ UNCHANGED <<pluginVars, tenantVars, authVars, quotaVars>>

\* get_current_tenant
get_current_tenant ==
    /\ request # {}
    /\ rlast.calls < MaxCalls
    /\ LET req == CHOOSE r \in request : TRUE
           tenant == identify_tenant(req)
       IN  IF "tenant" \notin DOMAIN g
           THEN /\ g' = Put(g, "tenant", tenant)
                /\ rlast' = [calls |-> rlast.calls + 1,
                             identifications |-> rlast.identifications + 1,
                             returned |-> rlast.returned \cup {tenant},
                             identified |-> rlast.identified \cup {tenant}]
           ELSE /\ g' = g
                /\ rlast' = [rlast EXCEPT !.calls = rlast.calls + 1,
                                          !.returned = rlast.returned \cup {g["tenant"]}]
    /\ UNCHANGED <<request, middleware_installed, calls>>
    /\ UNCHANGED <<pluginVars, tenantVars, authVars, quotaVars>>

\* The end of a request: reset_tenant_after_request deletes g.tenant when the middleware
\* is installed, and the application context is popped, which discards g.
reset_tenant_after_request ==
    /\ request # {}
    /\ request' = {}
    /\ g' = [k \in {} |-> {}]
    /\ UNCHANGED <<middleware_installed, rlast, calls>>
    /\ UNCHANGED <<pluginVars, tenantVars, authVars, quotaVars>>

\* ------------------------------------------- concurrent enable/disable requests

\* The requests served at the same time, each with its own database session.
Workers == {"w1", "w2"}

Idle == [pc |-> "idle"]

\* Rows of tenant_plugins carry their primary key here, so that two rows of one
\* (tenant_id, plugin_id) pair are two rows.
NewId(rows) == Cardinality(rows) + 1

\* A database without the constraint uq_tenant_plugin.
NoUniqueConstraint(rows, tenant_id, plugin_id) == FALSE

\* UniqueConstraint('tenant_id', 'plugin_id'): the INSERT of a second row for the pair
\* fails with an IntegrityError once the first is committed.
UniqueViolation(rows, tenant_id, plugin_id) ==
    \E r \in rows : r.tenant_id = tenant_id /\ r.plugin_id = plugin_id

\* enable_for_tenant up to its commit: the query, then the change in the session.
enable_query(w, tenant_id, plugin_id, config) ==
    /\ calls[w].pc = "idle"
    /\ calls' = [calls EXCEPT ![w] =
                    [pc |-> "commit", op |-> "enable_for_tenant", tenant_id |-> tenant_id,
                     plugin_id |-> plugin_id, config |-> config,
                     found |-> {r.id : r \in RowsFor(tenant_id, plugin_id)}]]
    /\ UNCHANGED TenantPlugin

\* disable_for_tenant up to its commit; it returns False when the query finds no row.
disable_query(w, tenant_id, plugin_id) ==
    /\ calls[w].pc = "idle"
    /\ LET found == {r.id : r \in RowsFor(tenant_id, plugin_id)}
       IN  calls' = [calls EXCEPT ![w] =
                        [pc |-> IF found = {} THEN "done" ELSE "commit",
                         op |-> "disable_for_tenant", tenant_id |-> tenant_id,
                         plugin_id |-> plugin_id, config |-> EmptyConfig, found |-> found,
                         fault |-> "none", result |-> "False"]]
    /\ UNCHANGED TenantPlugin

\* db.session.commit() of either call, and what the call then returns or raises.
commit(w, fault) ==
    /\ calls[w].pc = "commit"
    /\ fault \in {"none", "commit"}
    /\ LET c == calls[w]
           done(result) ==
               [pc |-> "done", op |-> c.op, tenant_id |-> c.tenant_id, plugin_id |-> c.plugin_id,
                config |-> c.config, found |-> c.found, fault |-> fault, result |-> result]
           found == {r \in TenantPlugin : r.id \in c.found}
       IN  IF fault = "commit"
           THEN \* the commit raises: rollback, raise
                /\ calls' = [calls EXCEPT ![w] = done("raised")]
                /\ UNCHANGED TenantPlugin
           ELSE IF c.op = "disable_for_tenant"
           THEN /\ TenantPlugin' = (TenantPlugin \ found) \cup {[r EXCEPT !.enabled = FALSE] : r \in found}
                /\ calls' = [calls EXCEPT ![w] = done("True")]
           ELSE IF c.found # {}
           THEN /\ TenantPlugin' =
                       (TenantPlugin \ found) \cup
                       {[r EXCEPT !.enabled = TRUE,
                                  !.config = IF c.config # EmptyConfig THEN c.config ELSE r.config] : r \in found}
                /\ calls' = [calls EXCEPT ![w] = done("row")]
           ELSE IF UniqueViolation(TenantPlugin, c.tenant_id, c.plugin_id)
           THEN \* IntegrityError: rollback, raise
                /\ calls' = [calls EXCEPT ![w] = done("IntegrityError")]
                /\ UNCHANGED TenantPlugin
           ELSE /\ TenantPlugin' = TenantPlugin \cup
                                     {[id |-> NewId(TenantPlugin), tenant_id |-> c.tenant_id,
                                       plugin_id |-> c.plugin_id, enabled |-> TRUE, config |-> c.config]}
                /\ calls' = [calls EXCEPT ![w] = done("row")]

\* The request ends; the worker takes the next one.
respond(w) ==
    /\ calls[w].pc = "done"
    /\ calls' = [calls EXCEPT ![w] = Idle]
    /\ UNCHANGED TenantPlugin

\* get_plugin_instance(plugin_slug) up to the plugin.load() it makes once the status
\* check has passed: the cache lookup, the row lookup and the status check.
get_plugin_instance_check(w, plugin_slug) ==
    /\ calls[w].pc = "idle"
    /\ LET instance_key == InstanceKey(plugin_slug, None)
           at(pc, result) == [pc |-> pc, op |-> "get_plugin_instance", slug |-> plugin_slug,
                              result |-> result]
       IN  IF instance_key \in DOMAIN plugin_instances
           THEN /\ calls' = [calls EXCEPT ![w] = at("done", "instance")]
                /\ UNCHANGED plugins
           ELSE IF plugin_slug \notin plugins /\ plugin_slug \notin DOMAIN Plugin
           THEN /\ calls' = [calls EXCEPT ![w] = at("done", "None")]
                /\ UNCHANGED plugins
           ELSE /\ plugins' = plugins \cup {plugin_slug}
                /\ calls' = [calls EXCEPT ![w] =
                                IF Plugin[plugin_slug].status # "active"
                                THEN at("done", "None")
                                ELSE at("create", "")]
    /\ UNCHANGED <<Plugin, plugin_instances>>

\* get_plugin_instance from plugin.load() on: the class is loaded, the instance is
\* constructed and written to the cache.
get_plugin_instance_create(w) ==
    /\ calls[w].pc = "create"
    /\ LET c == calls[w]
           loaded == load(Plugin[c.slug], TRUE)
           at(result) == [pc |-> "done", op |-> c.op, slug |-> c.slug, result |-> result]
       IN  IF loaded.outcome # "class"
           THEN /\ Plugin' = [Plugin EXCEPT ![c.slug].status = loaded.status]
                /\ calls' = [calls EXCEPT ![w] = at("None")]
                /\ UNCHANGED plugin_instances
           ELSE /\ plugin_instances' =
                       CreateInstance(plugin_instances, InstanceKey(c.slug, None),
                                      Instance(c.slug, EmptyConfig), FALSE)
                /\ calls' = [calls EXCEPT ![w] = at("instance")]
                /\ UNCHANGED Plugin
    /\ UNCHANGED plugins

\* deactivate_plugin(plugin_slug) up to and with its commit of status = inactive.
deactivate_plugin_commit(w, plugin_slug) ==
    /\ calls[w].pc = "idle"
    /\ IF plugin_slug \notin DOMAIN Plugin
       THEN /\ calls' = [calls EXCEPT ![w] =
                            [pc |-> "done", op |-> "deactivate_plugin", slug |-> plugin_slug,
                             result |-> "False"]]
            /\ UNCHANGED Plugin
       ELSE /\ Plugin' = [Plugin EXCEPT ![plugin_slug].status = "inactive"]
            /\ calls' = [calls EXCEPT ![w] =
                            [pc |-> "evict", op |-> "deactivate_plugin", slug |-> plugin_slug,
                             result |-> ""]]
    /\ UNCHANGED <<plugins, plugin_instances>>

\* deactivate_plugin after its commit: the cached instance is removed, True is returned.
deactivate_plugin_evict(w) ==
    /\ calls[w].pc = "evict"
    /\ LET c == calls[w]
       IN  /\ plugin_instances' = EvictInstances(plugin_instances, c.slug)
           /\ plugins' = plugins \cup {c.slug}
           /\ calls' = [calls EXCEPT ![w] =
                           [pc |-> "done", op |-> c.op, slug |-> c.slug, result |-> "True"]]
    /\ UNCHANGED Plugin

\* ------------------------------------------------------------------ quotas

\* ResourceType: users and storage_mb have a limit on the tenant row, api_calls has none.
ResourceTypes == {"users", "storage_mb", "api_calls"}

\* The usage the model counts up to.
MaxUsage == 3

\* TenantUsage.query.filter_by(tenant_id=tenant.id, resource_type=resource_type)
UsageRows(tenant_id, resource_type) ==
    {r \in TenantUsage : r.tenant_id = tenant_id /\ r.resource_type = resource_type}

\* UniqueConstraint('tenant_id', 'resource_type', name='uq_tenant_resource')
UsageUniqueViolation(rows, tenant_id, resource_type) ==
    \E r \in rows : r.tenant_id = tenant_id /\ r.resource_type = resource_type

\* increment_usage up to its commit: the query, then the new row or the new amount in
\* the session.
increment_usage_query(w, tenant_id, resource_type, increment) ==
    /\ calls[w].pc = "idle"
    /\ qlast.committed[<<tenant_id, resource_type>>] + increment <= MaxUsage
    /\ LET usage == UsageRows(tenant_id, resource_type)
       IN  calls' = [calls EXCEPT ![w] =
                        [pc |-> "commit_usage", op |-> "increment_usage", tenant_id |-> tenant_id,
                         resource_type |-> resource_type, increment |-> increment,
                         found |-> {r.id : r \in usage},
                         usage_amount |-> IF usage = {}
                                          THEN increment
                                          ELSE (CHOOSE r \in usage : TRUE).usage_amount + increment]]
    /\ UNCHANGED <<TenantUsage, qlast>>

\* db.session.commit() of increment_usage: the INSERT of the new row, or the UPDATE that
\* sets usage_amount to the amount computed from the row as it was read.  qlast keeps, for
\* every tenant and resource, the sum of the increments whose call has committed.
increment_usage_commit(w) ==
    /\ calls[w].pc = "commit_usage"
    /\ LET c == calls[w]
           done(result) ==
               [pc |-> "done", op |-> c.op, tenant_id |-> c.tenant_id,
                resource_type |-> c.resource_type, increment |-> c.increment,
                found |-> c.found, usage_amount |-> c.usage_amount, result |-> result]
           found == {r \in TenantUsage : r.id \in c.found}
           committed == [op |-> "increment_usage",
                         committed |-> [qlast.committed EXCEPT
                                           ![<<c.tenant_id, c.resource_type>>] = @ + c.increment]]
       IN  IF c.found # {}
           THEN /\ TenantUsage' = (TenantUsage \ found) \cup
                                   {[r EXCEPT !.usage_amount = c.usage_amount] : r \in found}
                /\ calls' = [calls EXCEPT ![w] = done("amount")]
                /\ qlast' = committed
           ELSE IF UsageUniqueViolation(TenantUsage, c.tenant_id, c.resource_type)
           THEN \* IntegrityError, raised to the caller: nothing is committed
                /\ calls' = [calls EXCEPT ![w] = done("IntegrityError")]
                /\ UNCHANGED <<TenantUsage, qlast>>
           ELSE /\ TenantUsage' = TenantUsage \cup
                                    {[id |-> NewId(TenantUsage), tenant_id |-> c.tenant_id,
                                      resource_type |-> c.resource_type,
                                      usage_amount |-> c.usage_amount]}
                /\ calls' = [calls EXCEPT ![w] = done("amount")]
                /\ qlast' = committed

\* The record of a quota manager call: raised when the call raised, else the one-element
\* set of the number it returned ({} when it returns nothing).
QCall(op, tenant_id, resource_type, raised, result) ==
    [op |-> op, tenant_id |-> tenant_id, resource_type |-> resource_type,
     raised |-> raised, result |-> result]

\* The table with usage_amount of (tenant_id, resource_type) set: the row is updated, or
\* inserted when there is none.
SetUsage(rows, tenant_id, resource_type, amount) ==
    LET usage == {r \in rows : r.tenant_id = tenant_id /\ r.resource_type = resource_type}
    IN  IF usage = {}
        THEN rows \cup {[id |-> NewId(rows), tenant_id |-> tenant_id,
                         resource_type |-> resource_type, usage_amount |-> amount]}
        ELSE (rows \ usage) \cup {[r EXCEPT !.usage_amount = amount] : r \in usage}

\* usage.usage_amount of the row get_usage returns (0 for the row it creates)
UsageAmount(tenant_id, resource_type) ==
    LET usage == UsageRows(tenant_id, resource_type)
    IN  IF usage = {} THEN 0 ELSE (CHOOSE r \in usage : TRUE).usage_amount

\* QuotaManager.update_usage: amount is any integer the caller passes.
update_usage(tenant_id, resource_type, amount, fault) ==
    /\ fault \in {"none", "commit"}
    /\ IF fault = "commit"
       THEN /\ qlast' = QCall("update_usage", tenant_id, resource_type, TRUE, {})
            /\ UNCHANGED TenantUsage
       ELSE /\ TenantUsage' = SetUsage(TenantUsage, tenant_id, resource_type, amount)
            /\ qlast' = QCall("update_usage", tenant_id, resource_type, FALSE, {})

\* QuotaManager.increment_usage run by one request alone; a negative increment counts down.
increment_usage(tenant_id, resource_type, increment, fault) ==
    /\ fault \in {"none", "commit"}
    /\ LET amount == UsageAmount(tenant_id, resource_type) + increment
       IN  /\ amount \in -1..MaxUsage
           /\ IF fault = "commit"
              THEN /\ qlast' = QCall("increment_usage", tenant_id, resource_type, TRUE, {})
                   /\ UNCHANGED TenantUsage
              ELSE /\ TenantUsage' = SetUsage(TenantUsage, tenant_id, resource_type, amount)
                   /\ qlast' = QCall("increment_usage", tenant_id, resource_type, FALSE, {amount})

\* int(x) of Python for the quotient n / d with d > 0: truncation towards zero.
Truncate(n, d) == IF n >= 0 THEN n \div d ELSE -((-n) \div d)

\* min(int((current_usage / limit) * 100), 100).  For the usages and limits of the model
\* the double arithmetic of (current_usage / limit) * 100 truncates to the same integer as
\* the exact quotient current_usage * 100 / limit.
Percentage(current_usage, limit) ==
    LET percent == Truncate(current_usage * 100, limit)
    IN  IF percent < 100 THEN percent ELSE 100

\* QuotaManager.get_usage_percentage, with the get_usage it starts with (which inserts
\* and commits a row of usage 0 when there is none).
get_usage_percentage(tenant_id, resource_type, fault) ==
    /\ fault \in {"none", "commit"}
    /\ tenant_id \in DOMAIN Tenant
    /\ LET usage == UsageRows(tenant_id, resource_type)
           current_usage == UsageAmount(tenant_id, resource_type)
           tenant == Tenant[tenant_id]
           ret(result) == QCall("get_usage_percentage", tenant_id, resource_type, FALSE, {result})
       IN  IF usage = {} /\ fault = "commit"
           THEN /\ qlast' = QCall("get_usage_percentage", tenant_id, resource_type, TRUE, {})
                /\ UNCHANGED TenantUsage
           ELSE /\ fault = "none"
                /\ TenantUsage' = IF usage = {}
                                  THEN SetUsage(TenantUsage, tenant_id, resource_type, 0)
                                  ELSE TenantUsage
                /\ IF resource_type \notin {"users", "storage_mb"}
                   THEN qlast' = ret(0)
                   ELSE LET limit == IF resource_type = "users"
                                     THEN tenant.max_users
                                     ELSE tenant.max_storage_mb
                        IN  IF limit <= 0
                            THEN qlast' = ret(100)
                            ELSE qlast' = ret(Percentage(current_usage, limit))

\* ------------------------------------------------------------ tenant registry

TenantStatus == {"active", "inactive", "suspended", "provisioning", "decommissioning"}

\* slug = name.lower().replace(' ', '-')
Slugify(name) ==
    CASE name = "Acme Corp" -> "acme-corp"
      [] name = "Globex" -> "globex"
      [] OTHER -> name

TenantSlugs == {Slugify(n) : n \in TenantNames}

TCall(op, slug, fault, before, result) ==
    [op |-> op, slug |-> slug, fault |-> fault, before |-> before, result |-> result]

TenantStatusOf(slug) == IF slug \in DOMAIN Tenant THEN Tenant[slug].status ELSE "absent"

\* Tenant.create_tenant with an except clause that removes the row it had committed.
create_tenant_with_cleanup(name, fault) ==
    /\ fault \in {"none", "commit_row", "create_schema", "commit_status"}
    /\ LET slug == Slugify(name)
           ret(result) == TCall("create_tenant", slug, fault, TenantStatusOf(slug), result)
       IN  IF slug \in DOMAIN Tenant
           THEN /\ fault = "none"
                /\ tlast' = ret("raised")
                /\ UNCHANGED <<Tenant, schemas, schema_created>>
           ELSE IF fault # "none"
           THEN /\ tlast' = ret("raised")
                /\ UNCHANGED <<Tenant, schemas, schema_created>>
           ELSE /\ Tenant' = Put(Tenant, slug, [status |-> "active"])
                /\ schemas' = schemas \cup {slug}
                /\ schema_created' = schema_created \cup {slug}
                /\ tlast' = ret("tenant")
    /\ UNCHANGED nonTenantVars

\* Tenant.create_tenant: commit the row, create the schema, commit status = active.
create_tenant(name, fault) ==
    /\ fault \in {"none", "commit_row", "create_schema", "commit_status"}
    /\ LET slug == Slugify(name)
           ret(result) == TCall("create_tenant", slug, fault, TenantStatusOf(slug), result)
       IN  IF slug \in DOMAIN Tenant
           THEN \* the unique index on slug rejects the insert: rollback, raise
                /\ fault = "none"
                /\ tlast' = ret("raised")
                /\ UNCHANGED <<Tenant, schemas, schema_created>>
           ELSE CASE fault = "commit_row" ->
                       /\ tlast' = ret("raised")
                       /\ UNCHANGED <<Tenant, schemas, schema_created>>
                  [] fault = "create_schema" ->
                       /\ Tenant' = Put(Tenant, slug, [status |-> "provisioning"])
                       /\ tlast' = ret("raised")
                       /\ UNCHANGED <<schemas, schema_created>>
                  [] fault = "commit_status" ->
                       /\ Tenant' = Put(Tenant, slug, [status |-> "provisioning"])
                       /\ schemas' = schemas \cup {slug}
                       /\ schema_created' = schema_created \cup {slug}
                       /\ tlast' = ret("raised")
                  [] OTHER ->
                       /\ Tenant' = Put(Tenant, slug, [status |-> "active"])
                       /\ schemas' = schemas \cup {slug}
                       /\ schema_created' = schema_created \cup {slug}
                       /\ tlast' = ret("tenant")
    /\ UNCHANGED nonTenantVars

\* Tenant.activate: the status it leaves
activate(status) == IF status # "active" THEN "active" ELSE status

\* Tenant.deactivate: the status it leaves
deactivate(status) == IF status = "active" THEN "inactive" ELSE status

\* Tenant.suspend: the status it leaves
suspend(status) == IF status # "suspended" THEN "suspended" ELSE status

\* The statuses both status-update handlers accept.
valid_statuses == {"active", "inactive", "suspended"}

\* The record of a status-update request: a call record with the status requested.
StatusCall(op, slug, new_status, fault, before, result) ==
    [op |-> op, slug |-> slug, requested |-> new_status, fault |-> fault,
     before |-> before, result |-> result]

\* POST /tenant/<slug>/status (HTML): calls activate, deactivate or suspend.
update_status(slug, new_status, fault) ==
    /\ fault \in {"none", "commit"}
    /\ LET ret(result) == StatusCall("update_status", slug, new_status, fault, TenantStatusOf(slug), result)
       IN  IF slug \notin DOMAIN Tenant
           THEN /\ fault = "none"
                /\ tlast' = ret("not_found")
                /\ UNCHANGED Tenant
           ELSE IF new_status \notin valid_statuses
           THEN /\ fault = "none"
                /\ tlast' = ret("invalid")
                /\ UNCHANGED Tenant
           ELSE LET status == Tenant[slug].status
                    after == CASE new_status = "active" -> activate(status)
                               [] new_status = "inactive" -> deactivate(status)
                               [] OTHER -> suspend(status)
                IN  IF after = status
                    THEN \* the method commits nothing
                         /\ fault = "none"
                         /\ tlast' = ret("ok")
                         /\ UNCHANGED Tenant
                    ELSE IF fault = "commit"
                    THEN /\ tlast' = ret("error")
                         /\ UNCHANGED Tenant
                    ELSE /\ Tenant' = [Tenant EXCEPT ![slug].status = after]
                         /\ tlast' = ret("ok")
    /\ UNCHANGED <<schemas, schema_created>>
    /\ UNCHANGED nonTenantVars

\* PATCH /api/tenant/<slug>/status (JSON): assigns the status.
update_tenant_status(slug, new_status, fault) ==
    /\ fault \in {"none", "commit"}
    /\ LET ret(result) == StatusCall("update_tenant_status", slug, new_status, fault, TenantStatusOf(slug), result)
       IN  IF slug \notin DOMAIN Tenant
           THEN /\ fault = "none"
                /\ tlast' = ret("404")
                /\ UNCHANGED Tenant
           ELSE IF new_status \notin valid_statuses
           THEN /\ fault = "none"
                /\ tlast' = ret("400")
                /\ UNCHANGED Tenant
           ELSE IF fault = "commit"
           THEN /\ tlast' = ret("500")
                /\ UNCHANGED Tenant
           ELSE /\ Tenant' = [Tenant EXCEPT ![slug].status = new_status]
                /\ tlast' = ret("200")
    /\ UNCHANGED <<schemas, schema_created>>
    /\ UNCHANGED nonTenantVars

\* Tenant.delete with the row deleted and committed before the schema is dropped.
delete_row_before_drop(slug, fault) ==
    /\ fault \in {"none", "commit_status", "drop_schema", "commit_delete"}
    /\ slug \in DOMAIN Tenant
    /\ LET ret(result) == TCall("delete", slug, fault, Tenant[slug].status, result)
           marked == [Tenant EXCEPT ![slug].status = "decommissioning"]
       IN  CASE fault = "commit_status" ->
                  /\ tlast' = ret("raised")
                  /\ UNCHANGED <<Tenant, schemas, schema_created>>
             [] fault = "commit_delete" ->
                  /\ Tenant' = marked
                  /\ tlast' = ret("raised")
                  /\ UNCHANGED <<schemas, schema_created>>
             [] fault = "drop_schema" ->
                  /\ Tenant' = Del(Tenant, slug)
                  /\ schema_created' = schema_created \ {slug}
                  /\ tlast' = ret("raised")
                  /\ UNCHANGED schemas
             [] OTHER ->
                  /\ Tenant' = Del(Tenant, slug)
                  /\ schemas' = schemas \ {slug}
                  /\ schema_created' = schema_created \ {slug}
                  /\ tlast' = ret("deleted")
    /\ UNCHANGED nonTenantVars

\* Tenant.delete on an existing row: commit status = decommissioning, drop the schema,
\* delete the row and commit; an exception after the first commit is rolled back and raised.
delete(slug, fault) ==
    /\ fault \in {"none", "commit_status", "drop_schema", "commit_delete"}
    /\ slug \in DOMAIN Tenant
    /\ LET ret(result) == TCall("delete", slug, fault, Tenant[slug].status, result)
           marked == [Tenant EXCEPT ![slug].status = "decommissioning"]
       IN  CASE fault = "commit_status" ->
                  /\ tlast' = ret("raised")
                  /\ UNCHANGED <<Tenant, schemas, schema_created>>
             [] fault = "drop_schema" ->
                  /\ Tenant' = marked
                  /\ tlast' = ret("raised")
                  /\ UNCHANGED <<schemas, schema_created>>
             [] fault = "commit_delete" ->
                  /\ Tenant' = marked
                  /\ schemas' = schemas \ {slug}
                  /\ tlast' = ret("raised")
                  /\ UNCHANGED schema_created
             [] OTHER ->
                  /\ Tenant' = Del(Tenant, slug)
                  /\ schemas' = schemas \ {slug}
                  /\ schema_created' = schema_created \ {slug}
                  /\ tlast' = ret("deleted")
    /\ UNCHANGED nonTenantVars

\* --------------------------------------------------------------- specification

EmptyMap == [k \in {} |-> {}]

InitPlugins ==
    /\ Plugin = EmptyMap
    /\ TenantPlugin = {}
    /\ plugins = {}
    /\ plugin_instances = EmptyMap
    /\ blueprints = EmptyMap
    /\ last = Call("init", "", None, "none", "absent", "not_called", "", {})

InitTenants ==
    /\ Tenant = EmptyMap
    /\ schemas = {}
    /\ schema_created = {}
    /\ tlast = TCall("init", "", "none", "absent", "")

\* No user is logged in and no role is defined.
InitAuth ==
    /\ current_user = [is_system_admin |-> FALSE, roles |-> {}]
    /\ Role = EmptyMap
    /\ User = EmptyMap
    /\ alast = [op |-> "init", permission |-> "", result |-> FALSE]

\* No request is being served; the application factory does not install the middleware.
InitRequest ==
    /\ request = {}
    /\ g = EmptyMap
    /\ middleware_installed = FALSE
    /\ rlast = NoCalls
    /\ calls = [w \in Workers |-> Idle]

\* No usage has been recorded.
InitQuota ==
    /\ TenantUsage = {}
    /\ qlast = [op |-> "init"]

Init == InitPlugins /\ InitTenants /\ InitAuth /\ InitRequest /\ InitQuota

Next ==
    \/ \E slug \in Slugs, e \in EntryPoints, all \in BOOLEAN, fault \in {"none", "commit"} :
           register_plugin(slug, e, all, fault) /\ UNCHANGED nonPluginVars
    \/ \E t \in TenantIds, slug \in Slugs, c \in Configs, fault \in {"none", "commit"} :
           enable_for_tenant(t, PluginId(slug), c, fault) /\ UNCHANGED nonPluginVars
    \/ \E t \in TenantIds, slug \in Slugs, fault \in {"none", "commit"} :
           disable_for_tenant(t, PluginId(slug), fault) /\ UNCHANGED nonPluginVars
    \/ \E t \in TenantIds, slug \in Slugs, c \in Configs, fault \in {"none", "commit"} :
           update_tenant_plugin_config(t, slug, c, fault) /\ UNCHANGED nonPluginVars
    \/ \E slug \in Slugs, fault \in ActivateFaults :
           activate_plugin(slug, fault) /\ UNCHANGED nonPluginVars
    \/ \E slug \in Slugs, fault \in {"none", "commit", "refresh"} :
           deactivate_plugin(slug, fault) /\ UNCHANGED nonPluginVars
    \/ \E slug \in Slugs, t \in TenantIds \cup {None}, fault \in {"none", "load_commit", "constructor"} :
           get_plugin_instance(slug, t, fault) /\ UNCHANGED nonPluginVars
    \/ \E slug \in Slugs, fault \in {"none", "load_commit"} :
           debug_plugin(slug, fault) /\ UNCHANGED nonPluginVars

Spec == Init /\ [][Next]_vars

\* The status strings a client may send to the status-update handlers.
RequestedStatuses == TenantStatus \cup {"deleted"}

TenantNext ==
    \/ \E name \in TenantNames, fault \in {"none", "commit_row", "create_schema", "commit_status"} :
           create_tenant(name, fault)
    \/ \E slug \in TenantSlugs, st \in RequestedStatuses, fault \in {"none", "commit"} :
           update_status(slug, st, fault)
    \/ \E slug \in TenantSlugs, st \in RequestedStatuses, fault \in {"none", "commit"} :
           update_tenant_status(slug, st, fault)
    \/ \E slug \in TenantSlugs, fault \in {"none", "commit_status", "drop_schema", "commit_delete"} :
           delete(slug, fault)

TenantSpec == Init /\ [][TenantNext]_vars

\* The plugin rows of the loadable packages, registered and in any status a call leaves
\* (entry_point plays no part in the query).
PluginTables ==
    UNION {[S -> [status : {"active", "inactive", "error"},
                  entry_point : {"notes_plugin.plugin:NotesPlugin"},
                  enabled_for_all : BOOLEAN]] : S \in SUBSET PackageSlugs}

\* The association rows: at most one per (tenant_id, plugin_id), of registered plugins.
TenantPluginTables(registered) ==
    {T \in SUBSET [tenant_id : TenantIds, plugin_id : registered,
                   enabled : BOOLEAN, config : {EmptyConfig}] :
        \A a, b \in T : (a.tenant_id = b.tenant_id /\ a.plugin_id = b.plugin_id) => a = b}

QueryInit ==
    /\ Plugin \in PluginTables
    /\ TenantPlugin \in TenantPluginTables(DOMAIN Plugin)
    /\ plugins = {}
    /\ plugin_instances = EmptyMap
    /\ blueprints = EmptyMap
    /\ last = Call("init", "", None, "none", "absent", "not_called", "", {})
    /\ InitTenants
    /\ InitAuth
    /\ InitRequest
    /\ InitQuota

QueryNext == \E t \in TenantIds : list_tenant_plugins(t)

QuerySpec == QueryInit /\ [][QueryNext]_vars

\* A logged-in user with any roles attached, and the roles with any permission lists.
AuthInit ==
    /\ current_user \in [is_system_admin : BOOLEAN, roles : SUBSET RoleNames]
    /\ Role \in [RoleNames -> [permissions : SUBSET GrantablePermissions]]
    /\ User = EmptyMap
    /\ alast = [op |-> "init", permission |-> "", result |-> FALSE]
    /\ InitPlugins
    /\ InitTenants
    /\ InitRequest
    /\ InitQuota

AuthNext == \E p \in RequestedPermissions : permission_required(p)

AuthSpec == AuthInit /\ [][AuthNext]_vars

\* The tenants: any of RequestSlugs, each with a custom domain or none, no domain twice.
TenantTables ==
    {T \in UNION {[S -> [status : {"active"}, domain : Domains]] : S \in SUBSET RequestSlugs} :
        \A a, b \in DOMAIN T : (a # b /\ T[a].domain # NoDomain) => T[a].domain # T[b].domain}

RequestInit ==
    /\ Tenant \in TenantTables
    /\ schemas = DOMAIN Tenant
    /\ schema_created = DOMAIN Tenant
    /\ tlast = TCall("init", "", "none", "absent", "")
    /\ request = {}
    /\ g = EmptyMap
    /\ middleware_installed \in BOOLEAN
    /\ rlast = NoCalls
    /\ calls = [w \in Workers |-> Idle]
    /\ InitQuota
    /\ InitPlugins
    /\ InitAuth

RequestNext ==
    \/ \E req \in Requests : identify_tenant_before_request(req)
    \/ get_current_tenant
    \/ reset_tenant_after_request
    \/ \E slug \in RequestSlugs : delete(slug, "none")

RequestSpec == RequestInit /\ [][RequestNext]_vars

Packages == {PackageDirs[i] : i \in DOMAIN PackageDirs}

DiscoverNext == \E how \in [Packages -> Outcomes] : discover_plugins(how)

DiscoverSpec == Init /\ [][DiscoverNext]_vars

\* The plugins are registered; the requests enable and disable them for tenants.
ConcurrentInit ==
    /\ Plugin = [s \in Slugs |-> [status |-> "inactive",
                                   entry_point |-> "notes_plugin.plugin:NotesPlugin",
                                   enabled_for_all |-> FALSE]]
    /\ TenantPlugin = {}
    /\ plugins = {}
    /\ plugin_instances = EmptyMap
    /\ blueprints = EmptyMap
    /\ last = Call("init", "", None, "none", "absent", "not_called", "", {})
    /\ InitTenants
    /\ InitAuth
    /\ InitRequest
    /\ InitQuota

ConcurrentUnchanged ==
    UNCHANGED <<Plugin, plugins, plugin_instances, blueprints, last, tenantVars, authVars,
                request, g, middleware_installed, rlast, quotaVars>>

ConcurrentNext ==
    \/ \E w \in Workers, t \in TenantIds, slug \in Slugs, c \in {EmptyConfig, {<<"max_notes_per_user", 5>>}} :
           enable_query(w, t, PluginId(slug), c) /\ ConcurrentUnchanged
    \/ \E w \in Workers, t \in TenantIds, slug \in Slugs :
           disable_query(w, t, PluginId(slug)) /\ ConcurrentUnchanged
    \/ \E w \in Workers, fault \in {"none", "commit"} :
           commit(w, fault) /\ ConcurrentUnchanged
    \/ \E w \in Workers : respond(w) /\ ConcurrentUnchanged

ConcurrentSpec == ConcurrentInit /\ [][ConcurrentNext]_vars

\* Two tenants, so that a call for one tenant has another tenant's association to leave alone.
AssocTenants == {1, 2}

AssocNext ==
    \/ \E slug \in Slugs, e \in {"notes_plugin.plugin:NotesPlugin", "missing_module:NotesPlugin"}, all \in BOOLEAN :
           register_plugin(slug, e, all, "none") /\ UNCHANGED nonPluginVars
    \/ \E slug \in Slugs : activate_plugin(slug, "none") /\ UNCHANGED nonPluginVars
    \/ \E slug \in Slugs : deactivate_plugin(slug, "none") /\ UNCHANGED nonPluginVars
    \/ \E t \in AssocTenants, slug \in Slugs, c \in Configs, fault \in {"none", "commit"} :
           enable_for_tenant(t, PluginId(slug), c, fault) /\ UNCHANGED nonPluginVars
    \/ \E t \in AssocTenants, slug \in Slugs, fault \in {"none", "commit"} :
           disable_for_tenant(t, PluginId(slug), fault) /\ UNCHANGED nonPluginVars
    \/ \E slug \in Slugs, t \in AssocTenants \cup {None} :
           get_plugin_instance(slug, t, "none") /\ UNCHANGED nonPluginVars

AssocSpec == Init /\ [][AssocNext]_vars

\* The plugin rows the application may find when it starts.
StartupTables ==
    UNION {[S -> [status : {"active", "inactive", "error"},
                  entry_point : EntryPoints,
                  enabled_for_all : {FALSE}]] : S \in SUBSET Slugs}

\* The state create_app leaves: PluginManager() has indexed the rows, every row has been
\* loaded once (a row that does not load is left in error), the blueprints of the rows
\* that load are registered and the instances of the active ones are cached.
StartupInit ==
    /\ \E table \in StartupTables :
           Plugin = [s \in DOMAIN table |->
                        [table[s] EXCEPT !.status = load(table[s], TRUE).status]]
    /\ TenantPlugin = {}
    /\ plugins = DOMAIN Plugin
    /\ blueprints = register_all_plugin_blueprints(Plugin, DOMAIN Plugin, EmptyMap)
    /\ plugin_instances = load_plugin_blueprints(Plugin)
    /\ last = Call("init", "", None, "none", "absent", "not_called", "", {})
    /\ InitTenants
    /\ InitAuth
    /\ InitRequest
    /\ InitQuota

StartupNext ==
    \/ \E slug \in Slugs, e \in EntryPoints :
           register_plugin(slug, e, FALSE, "none") /\ UNCHANGED nonPluginVars
    \/ \E slug \in Slugs, fault \in ActivateFaults :
           activate_plugin(slug, fault) /\ UNCHANGED nonPluginVars
    \/ \E slug \in Slugs, fault \in {"none", "commit", "refresh"} :
           deactivate_plugin(slug, fault) /\ UNCHANGED nonPluginVars
    \/ \E slug \in Slugs, fault \in {"none", "load_commit", "constructor"} :
           get_plugin_instance(slug, None, fault) /\ UNCHANGED nonPluginVars

StartupSpec == StartupInit /\ [][StartupNext]_vars

\* The users: alice, active or not, of no tenant or of tenant acme-corp.
UserTables ==
    [{"alice"} -> [email : {"alice@acme.io"}, password : {"secret"}, is_active : BOOLEAN,
                   tenant_id : {{}, {"acme-corp"}}, last_login : {0}]]

\* The tenants: acme-corp in any status, or no row (a user row may outlive its tenant).
LoginTenantTables ==
    UNION {[S -> [status : TenantStatus]] : S \in SUBSET {"acme-corp"}}

LoginInit ==
    /\ User \in UserTables
    /\ Tenant \in LoginTenantTables
    /\ schemas = DOMAIN Tenant
    /\ schema_created = DOMAIN Tenant
    /\ tlast = TCall("init", "", "none", "absent", "")
    /\ current_user = [is_system_admin |-> FALSE, roles |-> {}]
    /\ Role = EmptyMap
    /\ alast = [op |-> "init", permission |-> "", result |-> FALSE]
    /\ InitPlugins
    /\ InitRequest
    /\ InitQuota

LoginNext ==
    \/ \E username \in LoginNames, password \in LoginPasswords, fault \in {"none", "commit"} :
           login(username, password, fault)
    \/ \E slug \in {"acme-corp"}, st \in valid_statuses :
           update_tenant_status(slug, st, "none")

LoginSpec == LoginInit /\ [][LoginNext]_vars

\* Requests that get and deactivate a registered plugin on the one plugin manager of the
\* process, and activations that bring the plugin back.
RaceInit ==
    /\ \E st \in {"active", "inactive"} :
           Plugin = [s \in Slugs |-> [status |-> st,
                                      entry_point |-> "notes_plugin.plugin:NotesPlugin",
                                      enabled_for_all |-> FALSE]]
    /\ TenantPlugin = {}
    /\ plugins = DOMAIN Plugin
    /\ plugin_instances = EmptyMap
    /\ blueprints = EmptyMap
    /\ last = Call("init", "", None, "none", "absent", "not_called", "", {})
    /\ InitTenants
    /\ InitAuth
    /\ InitRequest
    /\ InitQuota

RaceUnchanged ==
    UNCHANGED <<TenantPlugin, blueprints, last, tenantVars, authVars,
                request, g, middleware_installed, rlast, quotaVars>>

RaceNext ==
    \/ \E w \in Workers, slug \in Slugs : get_plugin_instance_check(w, slug) /\ RaceUnchanged
    \/ \E w \in Workers : get_plugin_instance_create(w) /\ RaceUnchanged
    \/ \E w \in Workers, slug \in Slugs : deactivate_plugin_commit(w, slug) /\ RaceUnchanged
    \/ \E w \in Workers : deactivate_plugin_evict(w) /\ RaceUnchanged
    \/ \E w \in Workers :
           respond(w) /\ UNCHANGED <<Plugin, plugins, plugin_instances>> /\ RaceUnchanged
    \/ \E slug \in Slugs :
           /\ activate_plugin(slug, "none")
           /\ UNCHANGED <<calls, request, g, middleware_installed, rlast>>
           /\ UNCHANGED <<tenantVars, authVars, quotaVars>>

RaceSpec == RaceInit /\ [][RaceNext]_vars

\* Registrations and discoveries among the calls that give a plugin a status and a
\* cached instance.
RegistryNext ==
    \/ \E slug \in Slugs, e \in EntryPoints, all \in BOOLEAN, fault \in {"none", "commit"} :
           register_plugin(slug, e, all, fault) /\ UNCHANGED nonPluginVars
    \/ \E how \in [Packages -> {"ok", "setup_none", "commit_raises"}] : discover_plugins(how)
    \/ \E slug \in Slugs : activate_plugin(slug, "none") /\ UNCHANGED nonPluginVars
    \/ \E slug \in Slugs : deactivate_plugin(slug, "none") /\ UNCHANGED nonPluginVars
    \/ \E slug \in Slugs : get_plugin_instance(slug, None, "none") /\ UNCHANGED nonPluginVars

RegistrySpec == Init /\ [][RegistryNext]_vars

\* Requests that increment the usage of a tenant, on a table with no usage rows yet.
UsageKeys == TenantIds \X {"users"}

UsageRaceInit ==
    /\ TenantUsage = {}
    /\ qlast = [op |-> "init", committed |-> [k \in UsageKeys |-> 0]]
    /\ InitPlugins
    /\ InitTenants
    /\ InitAuth
    /\ InitRequest

UsageRaceUnchanged ==
    UNCHANGED <<pluginVars, tenantVars, authVars, request, g, middleware_installed, rlast>>

UsageRaceNext ==
    \/ \E w \in Workers, k \in UsageKeys, increment \in {1, 2} :
           increment_usage_query(w, k[1], k[2], increment) /\ UsageRaceUnchanged
    \/ \E w \in Workers : increment_usage_commit(w) /\ UsageRaceUnchanged
    \/ \E w \in Workers :
           respond(w) /\ UNCHANGED <<TenantUsage, qlast>> /\ UsageRaceUnchanged

UsageRaceSpec == UsageRaceInit /\ [][UsageRaceNext]_vars

\* The limits a tenant row may carry: max_users and max_storage_mb are plain integers.
Limits == {-1, 0, 2, 5}

\* The amounts a caller passes to update_usage.
Amounts == {-1, 0, MaxUsage}

\* One tenant with any limits and no usage recorded yet.
QuotaInit ==
    /\ Tenant \in [{"acme-corp"} -> [status : {"active"}, max_users : Limits,
                                       max_storage_mb : {0, 5}]]
    /\ schemas = DOMAIN Tenant
    /\ schema_created = DOMAIN Tenant
    /\ tlast = TCall("init", "", "none", "absent", "")
    /\ InitQuota
    /\ InitPlugins
    /\ InitAuth
    /\ InitRequest

QuotaUnchanged == UNCHANGED <<pluginVars, tenantVars, authVars, requestVars>>

QuotaNext ==
    \/ \E t \in DOMAIN Tenant, r \in ResourceTypes, amount \in Amounts, fault \in {"none", "commit"} :
           update_usage(t, r, amount, fault) /\ QuotaUnchanged
    \/ \E t \in DOMAIN Tenant, r \in ResourceTypes, increment \in {-1, 1}, fault \in {"none", "commit"} :
           increment_usage(t, r, increment, fault) /\ QuotaUnchanged
    \/ \E t \in DOMAIN Tenant, r \in ResourceTypes, fault \in {"none", "commit"} :
           get_usage_percentage(t, r, fault) /\ QuotaUnchanged

QuotaSpec == QuotaInit /\ [][QuotaNext]_vars

\* ------------------------------------------------------------------ properties

\* An enabled TenantPlugin row exists for (tenant_id, plugin).
EnabledFor(tenant_id, slug) ==
    \E r \in RowsFor(tenant_id, PluginId(slug)) : r.enabled

\* The config get_plugin_instance is to construct with: the enabled row's, else the empty one.
CurrentConfig(tenant_id, slug) ==
    IF tenant_id # None /\ EnabledFor(tenant_id, slug)
    THEN (CHOOSE r \in RowsFor(tenant_id, PluginId(slug)) : r.enabled).config
    ELSE EmptyConfig

Returned == last.op = "get_plugin_instance" /\ last.ret # {}

\* C1: get_plugin_instance(slug, tenant_id) returns an instance only if the plugin's
\* status is active at the time of the call, for every slug and tenant_id including
\* none; an instance cached earlier is not returned once the plugin is not active.
C1_InstanceOnlyWhenActive ==
    Returned => (last.before = "active" /\ StatusOf(last.slug) = "active")

\* C2: with a tenant_id, get_plugin_instance returns an instance only if an enabled
\* TenantPlugin row exists for (tenant_id, plugin) or the plugin is enabled_for_all,
\* also when it had returned an instance before the row was disabled.
C2_TenantInstanceOnlyWhenEnabled ==
    (Returned /\ last.tenant_id # None) =>
        (EnabledFor(last.tenant_id, last.slug) \/ Plugin[last.slug].enabled_for_all)

\* C3: every instance get_plugin_instance returns was constructed with the config of
\* the tenant's enabled TenantPlugin row as it is at the time of the call, and with
\* the empty config when called without a tenant.
C3_InstanceHasCurrentConfig ==
    Returned => \A i \in last.ret : i.config = CurrentConfig(last.tenant_id, last.slug)

\* C4: a successful deactivate_plugin(slug) leaves the status inactive and no entry of
\* the instance cache for that slug, under the key slug or under any key slug:tenant_id.
C4_DeactivateEvictsEveryInstance ==
    (last.op = "deactivate_plugin" /\ last.result = "True") =>
        /\ StatusOf(last.slug) = "inactive"
        /\ \A k \in DOMAIN plugin_instances : k[1] # last.slug

\* C5: a call changes Plugin.status only along pending -> inactive (a first registration
\* creates the row inactive), inactive -> active, active -> inactive, or to error on a load
\* failure; a status of error is left only by an activate_plugin whose load() succeeds.
C5_StatusStateMachine ==
    LET b == last.before
        a == StatusOf(last.slug)
    IN  \/ b = a
        \/ <<b, a>> \in {<<"absent", "inactive">>, <<"pending", "inactive">>,
                         <<"inactive", "active">>, <<"active", "inactive">>}
        \/ a = "error" /\ last.load = "None"
        \/ b = "error" /\ a = "active" /\ last.op = "activate_plugin" /\ last.load = "class"

\* C6: Plugin.load() returns the class, or returns nothing with the persisted status
\* error; it never raises to its caller.
C6_LoadNeverRaises ==
    \/ last.load \in {"not_called", "class"}
    \/ last.load = "None" /\ StatusOf(last.slug) = "error"

\* C7: activate_plugin called twice in succession on a loadable plugin returns success
\* both times, leaves the status active and the plugin's blueprint registered once.
C7_ActivateIdempotent ==
    [][(/\ last.op = "activate_plugin" /\ last.result = "True"
        /\ last'.op = "activate_plugin" /\ last'.slug = last.slug /\ last'.fault = "none"
        /\ Resolve(Plugin[last.slug].entry_point) = "class")
       => (/\ last'.result = "True"
           /\ Plugin'[last.slug].status = "active"
           /\ blueprints'[BlueprintName(last.slug)] = 1
           /\ blueprints[BlueprintName(last.slug)] = 1)]_vars

\* C7 witness: an activation of an already active plugin succeeded, blueprint registered once.
C7_Witness ==
    /\ last.op = "activate_plugin" /\ last.result = "True" /\ last.before = "active"
    /\ StatusOf(last.slug) = "active"
    /\ blueprints[BlueprintName(last.slug)] = 1

\* C8: an activate_plugin that returns failure leaves the persisted status as it was
\* before the call, or error when load() failed; it does not leave it changed to active.
C8_FailedActivateKeepsStatus ==
    (last.op = "activate_plugin" /\ last.result # "True") =>
        /\ last.result = "False"
        /\ \/ StatusOf(last.slug) = last.before
           \/ last.load = "None" /\ StatusOf(last.slug) = "error"

\* C9: Tenant.delete deletes the row only after the schema drop has succeeded (no schema
\* outlives its row), and when the schema drop fails the call raises and the row still
\* exists with status decommissioning.
C9_DeleteDropsSchemaFirst ==
    /\ \A s \in schemas : s \in DOMAIN Tenant
    /\ (tlast.op = "delete" /\ tlast.slug \notin DOMAIN Tenant) =>
           (tlast.result = "deleted" /\ tlast.slug \notin schemas)
    /\ (tlast.op = "delete" /\ tlast.fault = "drop_schema") =>
           /\ tlast.result = "raised"
           /\ TenantStatusOf(tlast.slug) = "decommissioning"

\* C9 witness: a delete whose schema drop failed, the schema and the row still there.
C9_Witness ==
    /\ tlast.op = "delete" /\ tlast.fault = "drop_schema" /\ tlast.result = "raised"
    /\ tlast.slug \in schemas
    /\ TenantStatusOf(tlast.slug) = "decommissioning"

\* C10: no tenant has status active unless a schema creation for it has succeeded.
C10_ActiveOnlyAfterSchemaCreated ==
    \A s \in DOMAIN Tenant : Tenant[s].status = "active" => s \in schema_created

\* C11: when create_tenant fails after the commit of the row and before the commit of
\* the status update (the schema creation raises, or the status commit is lost), the call
\* raises and the row stays persisted with status provisioning; from then on the row is
\* removed or leaves provisioning only by a status or delete request naming that tenant.
C11_FailedCreateLeavesProvisioning ==
    [][/\ (tlast'.op = "create_tenant" /\ tlast'.fault \in {"create_schema", "commit_status"}) =>
              /\ tlast'.result = "raised"
              /\ tlast'.slug \in DOMAIN Tenant'
              /\ Tenant'[tlast'.slug].status = "provisioning"
       /\ \A s \in DOMAIN Tenant :
              (/\ Tenant[s].status = "provisioning"
               /\ (s \notin DOMAIN Tenant' \/ Tenant'[s].status # "provisioning")) =>
                  /\ tlast'.op \in {"update_status", "update_tenant_status", "delete"}
                  /\ tlast'.slug = s]_vars

\* C11 witness: a create_tenant whose schema creation failed: row provisioning, no schema.
C11_Witness ==
    /\ tlast.op = "create_tenant" /\ tlast.fault = "create_schema" /\ tlast.result = "raised"
    /\ TenantStatusOf(tlast.slug) = "provisioning"
    /\ tlast.slug \notin schemas

\* The plugins get_tenant_plugins is to return for a tenant.
ActiveForTenant(tenant_id) ==
    {s \in DOMAIN Plugin : /\ Plugin[s].status = "active"
                           /\ (Plugin[s].enabled_for_all \/ EnabledFor(tenant_id, s))}

ListedPlugins == {last.result[i] : i \in DOMAIN last.result}

\* C12: the list get_tenant_plugins(tenant_id) returns holds no plugin id twice, whatever
\* the enabled_for_all flags and TenantPlugin rows are, also for a plugin that is both
\* enabled_for_all and individually enabled for the tenant.
C12_NoDuplicatePlugins ==
    last.op = "get_tenant_plugins" =>
        \A i, j \in DOMAIN last.result : last.result[i] = last.result[j] => i = j

\* C12 witness: a listed plugin that is active, enabled_for_all and enabled for the tenant.
C12_Witness ==
    /\ last.op = "get_tenant_plugins"
    /\ \E s \in ListedPlugins :
           Plugin[s].enabled_for_all /\ EnabledFor(last.tenant_id, s)

C14_HasPermissionIffAdminOrRole ==
    alast.op = "has_permission" =>
        (alast.result <=>
            (current_user.is_system_admin
             \/ \E r \in current_user.roles : alast.permission \in Role[r].permissions))

\* C14 witness: a user who is no admin is refused a permission while a role of theirs
\* lists another permission.
C14_Witness ==
    /\ alast.op = "has_permission" /\ ~alast.result /\ ~current_user.is_system_admin
    /\ \E r \in current_user.roles : Role[r].permissions # {}

\* The four rules of tenant identification, each the tenant it finds ({} for none).
RuleSubdomain(req) ==
    IF Len(req.host) > 2 /\ req.host[1] # "www" /\ req.host[1] \in DOMAIN Tenant
    THEN {req.host[1]} ELSE {}

RuleCustomDomain(req) == {s \in DOMAIN Tenant : Tenant[s].domain = req.host}

RulePath(req) ==
    IF Len(req.path) > 2 /\ req.path[2] = "tenant" /\ req.path[3] \in DOMAIN Tenant
    THEN {req.path[3]} ELSE {}

RuleQuery(req) == IF req.tenant \in DOMAIN Tenant THEN {req.tenant} ELSE {}

FirstMatchingRule(req) ==
    CASE RuleSubdomain(req) # {} -> RuleSubdomain(req)
      [] RuleCustomDomain(req) # {} -> RuleCustomDomain(req)
      [] RulePath(req) # {} -> RulePath(req)
      [] OTHER -> RuleQuery(req)

IsStaticPath(req) == Len(req.path) > 2 /\ req.path[2] = "static"

\* The step ran identify_tenant for the request req.
Identifies(req) ==
    /\ request' = {req}
    /\ rlast'.identifications = (IF request = {} THEN 0 ELSE rlast.identifications) + 1

\* C15 as stated: for every request identify_tenant returns the tenant of the first rule
\* that matches, in the order subdomain, custom domain, path segment, query parameter,
\* and returns no tenant only when no rule matches.
C15_FirstMatchingRuleWins ==
    [][\A req \in Requests :
          Identifies(req) => rlast'.identified = {FirstMatchingRule(req)}]_vars

\* C15 amended: for every request whose path does not start with /static/ identify_tenant
\* returns the tenant of the first rule that matches, in the order subdomain, custom
\* domain, path segment, query parameter, and no tenant only when no rule matches; for a
\* request whose path starts with /static/ it returns no tenant whatever the rules match.
C15_FirstMatchingRuleWinsExceptStatic ==
    [][\A req \in Requests :
          Identifies(req) =>
              rlast'.identified = {IF IsStaticPath(req) THEN {} ELSE FirstMatchingRule(req)}]_vars

\* C15 witness: the host's first label names one tenant and the host is the custom domain
\* of another: the tenant of the subdomain was identified.
C15_Witness ==
    /\ rlast.identifications = 1
    /\ \E req \in request :
           /\ ~IsStaticPath(req)
           /\ RuleSubdomain(req) # {}
           /\ RuleCustomDomain(req) # {}
           /\ RuleCustomDomain(req) # RuleSubdomain(req)
           /\ rlast.identified = {RuleSubdomain(req)}

\* C16: during a request every get_current_tenant call returns the same tenant, the one
\* the request's single identification produced; between requests no memoized tenant is
\* left, so a request returns only what was identified for it.
C16_TenantMemoizedPerRequest ==
    /\ request # {} =>
           /\ Cardinality(rlast.returned) <= 1
           /\ rlast.identifications <= 1
           /\ rlast.returned \subseteq rlast.identified
    /\ request = {} => "tenant" \notin DOMAIN g

\* C16 witness: a second call in a request returns the memoized tenant although its row
\* has been deleted in the meantime.
C16_Witness ==
    /\ request # {}
    /\ rlast.calls >= 2
    /\ rlast.identifications = 1
    /\ \E t \in rlast.returned : t # {} /\ t \cap DOMAIN Tenant = {}

\* C17: when the plugin class constructor raises inside get_plugin_instance, the call
\* returns none without raising and leaves the instance cache as it was, with no entry
\* under the requested key; a call for the same key right after it constructs again.
C17_ConstructorFailureNotCached ==
    [][/\ (last'.op = "get_plugin_instance" /\ last'.fault = "constructor") =>
              /\ last'.result = "None"
              /\ plugin_instances' = plugin_instances
              /\ InstanceKey(last'.slug, last'.tenant_id) \notin DOMAIN plugin_instances'
       /\ (/\ last.op = "get_plugin_instance" /\ last.fault = "constructor"
           /\ last'.op = "get_plugin_instance" /\ last'.fault = "none"
           /\ last'.slug = last.slug /\ last'.tenant_id = last.tenant_id) =>
              /\ last'.load = "class"
              /\ last'.result = "instance"
              /\ InstanceKey(last'.slug, last'.tenant_id) \in DOMAIN plugin_instances']_vars

\* C17 witness: a tenant-scoped get_plugin_instance whose constructor raised: nothing
\* returned, nothing cached under the key.
C17_Witness ==
    /\ last.op = "get_plugin_instance" /\ last.fault = "constructor"
    /\ last.tenant_id # None
    /\ last.result = "None"
    /\ InstanceKey(last.slug, last.tenant_id) \notin DOMAIN plugin_instances

C18_DiscoverIsolatesFailures ==
    last.op = "discover_plugins" =>
        /\ last.result = "list"
        /\ \A item \in Packages :
               last.how[item] = "ok" =>
                   /\ Metadata(item).slug \in DOMAIN Plugin
                   /\ Plugin[Metadata(item).slug].entry_point = Metadata(item).entry_point
        /\ {last.discovered[i] : i \in DOMAIN last.discovered} =
               {Metadata(item) : item \in {p \in Packages : last.how[p] \in {"ok", "commit_raises"}}}

\* Both workers have finished an enable_for_tenant of one pair that neither found a row
\* for, and neither commit was made to fail by the database.
RacedEnables ==
    /\ \A w \in Workers :
           /\ calls[w].pc = "done" /\ calls[w].op = "enable_for_tenant"
           /\ calls[w].found = {} /\ calls[w].fault = "none"
    /\ \A v, w \in Workers :
           calls[v].tenant_id = calls[w].tenant_id /\ calls[v].plugin_id = calls[w].plugin_id

\* C20: under every interleaving of concurrent enable_for_tenant and disable_for_tenant
\* calls there is at most one TenantPlugin row per (tenant_id, plugin_id); two concurrent
\* enable_for_tenant calls for a pair without a row end with exactly one row, enabled:
\* one call returns it, the other raises and leaves no row of its own.
C20_OneRowPerTenantAndPlugin ==
    /\ \A a, b \in TenantPlugin :
           (a.tenant_id = b.tenant_id /\ a.plugin_id = b.plugin_id) => a = b
    /\ RacedEnables =>
           /\ \A w \in Workers :
                  \E r \in TenantPlugin :
                      /\ RowsFor(calls[w].tenant_id, calls[w].plugin_id) = {r}
                      /\ r.enabled
           /\ Cardinality({w \in Workers : calls[w].result = "row"}) = 1
           /\ Cardinality({w \in Workers : calls[w].result = "IntegrityError"}) = 1

\* C20 witness: two enable_for_tenant calls raced for a pair; one row, one call refused.
C20_Witness ==
    /\ RacedEnables
    /\ Cardinality(TenantPlugin) = 1
    /\ \E w \in Workers : calls[w].result = "IntegrityError"

C22_BlueprintsOnlyGrow ==
    [][/\ \A name \in DOMAIN blueprints : name \in DOMAIN blueprints'
       /\ last'.op = "deactivate_plugin" => blueprints' = blueprints]_vars

\* An active plugin whose blueprint is mounted has been deactivated.
C22_Witness ==
    /\ last.op = "deactivate_plugin"
    /\ last.before = "active"
    /\ last.result = "True"
    /\ StatusOf(last.slug) = "inactive"
    /\ BlueprintName(last.slug) \in DOMAIN blueprints
\* The user the login request names, by username or by email.
NamedUser == {u \in DOMAIN User : u = alast.username \/ User[u].email = alast.username}

\* What a login step is to answer and to change, by the row of the user it names.
LoginAnswers ==
    LET known == {u \in DOMAIN User : u = alast'.username \/ User[u].email = alast'.username}
        bad == known = {} \/ \E u \in known : User[u].password # alast'.password
        blocked == \E u \in known :
                       \/ ~User[u].is_active
                       \/ \E t \in User[u].tenant_id :
                              t \in DOMAIN Tenant /\ Tenant[t].status # "active"
    IN  /\ bad => alast'.status = 401
        /\ (~bad /\ blocked) => alast'.status = 403
        /\ alast'.token # {} => (~bad /\ ~blocked /\ alast'.status = 200)
        /\ User' # User => alast'.token # {}
        /\ alast'.token # {} =>
               \A u \in alast'.token : User'[u].last_login = User[u].last_login + 1

\* A step of the login handler (the other handler of the specification writes tlast).
LoginStep == alast'.op = "login" /\ UNCHANGED tenantVars

\* C23 as stated: every login is answered 401 when the user is unknown or the password
\* is wrong, 403 when the user is not active or their tenant exists and is not active, and
\* a token is issued (and last_login updated) only when none of these applies.
C23_LoginStatusCodes ==
    [][LoginStep => LoginAnswers]_vars

\* C23: a login that carries a username and a password is answered 401 when the user is
\* unknown or the password is wrong, 403 when the user is not active or their tenant
\* exists and is not active, and a token is issued (and last_login updated) only when none
\* of these applies; a login that lacks either field is answered 400 and issues no token.
C23_LoginStatusCodesWhenFieldsPresent ==
    [][LoginStep =>
          IF alast'.username # "" /\ alast'.password # ""
          THEN LoginAnswers
          ELSE alast'.status = 400 /\ alast'.token = {} /\ User' = User]_vars

\* A user with the right password has been refused because their tenant is not active.
C23_Witness ==
    /\ alast.op = "login"
    /\ alast.status = 403
    /\ \E u \in NamedUser :
           /\ User[u].is_active
           /\ User[u].password = alast.password
           /\ \E t \in User[u].tenant_id : t \in DOMAIN Tenant /\ Tenant[t].status = "suspended"
\* C24: whenever no get_plugin_instance or deactivate_plugin call is under way, the
\* instance cache holds an entry for a plugin only if the plugin's persisted status is
\* active, however the calls of two requests were interleaved.
C24_NoInstanceOfInactivePlugin ==
    (\A w \in Workers : calls[w].pc \in {"idle", "done"}) =>
        \A key \in DOMAIN plugin_instances : StatusOf(key[1]) = "active"
\* C25: a register_plugin or a discover_plugins leaves the status of every plugin that
\* was registered before the call as it was (an active plugin stays active, an inactive
\* one inactive, one in error in error) and leaves the instance cache as it was.
C25_ReregistrationKeepsStatusAndCache ==
    [][last'.op \in {"register_plugin", "discover_plugins"} =>
          /\ \A slug \in DOMAIN Plugin :
                 slug \in DOMAIN Plugin' /\ Plugin'[slug].status = Plugin[slug].status
          /\ plugin_instances' = plugin_instances]_vars

\* A registration has rewritten the metadata of an active plugin whose instance is cached.
C25_Witness ==
    /\ last.op = "register_plugin"
    /\ last.before = "active"
    /\ last.result = "row"
    /\ Plugin[last.slug].entry_point = last.entry_point
    /\ Plugin[last.slug].status = "active"
    /\ <<last.slug>> \in DOMAIN plugin_instances
\* C26: a tenant whose status is decommissioning keeps that status until its row is
\* deleted: no activate, deactivate, suspend, status update or delete retry gives it
\* another status.
C26_DecommissioningIsFinal ==
    [][\A slug \in DOMAIN Tenant :
          Tenant[slug].status = "decommissioning" =>
              (slug \in DOMAIN Tenant' => Tenant'[slug].status = "decommissioning")]_vars
\* C27: the HTML status update and the JSON status update leave the same status: a
\* request for active, inactive or suspended that raises nothing leaves the tenant with
\* the status requested, which is what the JSON route assigns, whatever the status was
\* and whichever route served it; a request for any other status leaves the tenant as it was.
C27_StatusRoutesAgree ==
    [][(tlast'.op \in {"update_status", "update_tenant_status"}
        /\ tlast'.fault = "none" /\ tlast'.slug \in DOMAIN Tenant) =>
          IF tlast'.requested \in {"active", "inactive", "suspended"}
          THEN Tenant'[tlast'.slug].status = tlast'.requested
          ELSE Tenant' = Tenant]_vars
\* C28: whenever no increment_usage call is under way, the usage stored for a tenant
\* and a resource is the sum of the increments of the calls that committed (two concurrent
\* increments a and b leave before + a + b), in at most one TenantUsage row.
C28_ConcurrentIncrementsAdd ==
    (\A w \in Workers : calls[w].pc \in {"idle", "done"}) =>
        \A k \in UsageKeys :
            LET usage == UsageRows(k[1], k[2])
            IN  /\ Cardinality(usage) <= 1
                /\ IF usage = {}
                   THEN qlast.committed[k] = 0
                   ELSE \A r \in usage : r.usage_amount = qlast.committed[k]
\* C29: disable_for_tenant leaves the stored config as it is and enable_for_tenant with
\* no config enables the association with the config it finds, so a disable followed by
\* an enable with no config restores the association with the config it had; on an
\* existing association enable_for_tenant replaces the config only when it is passed a
\* non-empty one, which then is the stored one.
C29_EnableKeepsConfigUnlessGiven ==
    [][/\ (last'.op = "disable_for_tenant" /\ last'.result = "True") =>
            \A r \in RowsFor(last'.tenant_id, last'.slug) :
                [r EXCEPT !.enabled = FALSE] \in TenantPlugin'
       /\ (last'.op = "enable_for_tenant" /\ last'.result = "row") =>
            \A r \in RowsFor(last'.tenant_id, last'.slug) :
                /\ last'.config = EmptyConfig => [r EXCEPT !.enabled = TRUE] \in TenantPlugin'
                /\ last'.config # EmptyConfig =>
                       [r EXCEPT !.enabled = TRUE, !.config = last'.config] \in TenantPlugin'
                /\ \A q \in TenantPlugin' :
                       (q.tenant_id = r.tenant_id /\ q.plugin_id = r.plugin_id) =>
                           (q.config # r.config => last'.config # EmptyConfig)]_vars

\* An association that was disabled with a config stored has been enabled again with no
\* config, and holds the config it had.
C29_Witness ==
    /\ last.op = "enable_for_tenant"
    /\ last.result = "row"
    /\ last.config = EmptyConfig
    /\ \E r \in last.found :
           /\ ~r.enabled
           /\ r.config # EmptyConfig
           /\ [r EXCEPT !.enabled = TRUE] \in TenantPlugin
\* C30: what get_usage_percentage returns is an integer from 0 to 100, for every usage
\* that update_usage and increment_usage leave and every limit: 100 when the limit is zero
\* or negative, 0 for a resource without a limit.
C30_PercentageBetween0And100 ==
    (qlast.op = "get_usage_percentage" /\ ~qlast.raised) =>
        \A result \in qlast.result :
            /\ result \in 0..100
            /\ qlast.resource_type \notin {"users", "storage_mb"} => result = 0
            /\ (qlast.resource_type = "users" /\ Tenant[qlast.tenant_id].max_users <= 0) =>
                   result = 100
            /\ (qlast.resource_type = "storage_mb" /\ Tenant[qlast.tenant_id].max_storage_mb <= 0) =>
                   result = 100
====









